---- MODULE Spec2Model ----
(***************************************************************************)
(* Model of the v0 contract execution host of wasm-chain-integration:      *)
(* the energy meter, the logs, the flat contract state, the action list    *)
(* and the host-call dispatcher (InitHost / ReceiveHost), driven by        *)
(* invoke_init / invoke_receive.                                           *)
(*                                                                         *)
(* One behaviour is one invocation.  The interpreter (wasm_transform) is   *)
(* external: every callback it makes into the host (tick_energy, call) is  *)
(* one action, and the end of artifact.run (a returned i32 or a trap) is   *)
(* one action that computes the result invoke_init / invoke_receive hand   *)
(* to the caller.                                                          *)
(***************************************************************************)
EXTENDS Integers, Sequences, FiniteSets, TLC

(***************************************************************************)
(* Bounds of the model (inputs are drawn from these).                      *)
(***************************************************************************)
\* largest initial energy of an invocation of a metering-only module
MaxEnergy == 201
\* largest initial energy of an invocation of the other modules
SmallEnergy == 1
\* largest amount passed to tick_energy / charge_stack
MaxAmount == 3
\* largest page count passed to charge_memory_alloc
MaxPages == 2
\* length of the linear memory of modules that pass short byte ranges
MemSmall == 2
\* length of the linear memory of modules that pass 32-byte addresses
MemBig == 33
\* most events logged in one invocation
MaxLogs == 2
\* most actions created in one invocation
MaxActions == 3

(***************************************************************************)
(* Program constants.                                                      *)
(***************************************************************************)
\* lib.rs:66
MEMORY_COST_FACTOR == 100
\* constants::MAX_CONTRACT_STATE (lib.rs:7); constants.rs is not among the
\* sources, the model takes a small maximum
MAX_CONTRACT_STATE == 3
\* size of an AccountAddress, the literal 32 of lib.rs:122,401,426,469,491
ACCOUNT_ADDRESS_SIZE == 32

(***************************************************************************)
(* Byte-slice helpers (Rust slices are 0-based, sequences 1-based).        *)
(***************************************************************************)
Min(a, b) == IF a <= b THEN a ELSE b

\* s[from..to]
Slice(s, from, to) == SubSeq(s, from + 1, to)

\* n copies of the byte b
Repeat(b, n) == [i \in 1..n |-> b]

\* <[u8] as Write>::write on the slice mem[start..end]: copies
\* min(end - start, |data|) bytes and reports how many
SliceWrite(mem, start, end, data) ==
    LET amt == Min(end - start, Len(data))
    IN  [mem |-> [i \in 1..Len(mem) |->
                    IF i > start /\ i <= start + amt THEN data[i - start] ELSE mem[i]],
         amt |-> amt]

\* Write::write_all on the slice mem[start..end]: writes what fits and fails
\* with WriteZero when the slice is too short for the data
SliceWriteAll(mem, start, end, data) ==
    LET w == SliceWrite(mem, start, end, data)
    IN  [mem |-> w.mem, ok |-> w.amt = Len(data)]

\* Vec::resize(n, 0)
VecResize(v, n) == [i \in 1..n |-> IF i <= Len(v) THEN v[i] ELSE 0]

(***************************************************************************)
(* Energy (lib.rs:56-103).                                                 *)
(***************************************************************************)
\* mutant: a strict comparison, so a charge of the whole remainder fails
Energy_tick_energy_Strict(energy, amount) ==
    IF energy > amount
    THEN [energy |-> energy - amount, ok |-> TRUE]
    ELSE [energy |-> 0, ok |-> FALSE]

Energy_tick_energy(energy, amount) ==
    IF energy >= amount
    THEN [energy |-> energy - amount, ok |-> TRUE]
    ELSE [energy |-> 0, ok |-> FALSE]

\* mutant: a saturating subtraction that never reports failure
Energy_charge_stack_Saturating(energy, amount) ==
    [energy |-> IF energy >= amount THEN energy - amount ELSE 0, ok |-> TRUE]

Energy_charge_stack(energy, amount) ==
    IF energy >= amount
    THEN [energy |-> energy - amount, ok |-> TRUE]
    ELSE [energy |-> 0, ok |-> FALSE]

\* mutant: the page count is charged without the cost factor
Energy_charge_memory_alloc_NoFactor(energy, num_pages) ==
    LET to_charge == num_pages
    IN  IF energy >= to_charge
        THEN [energy |-> energy - to_charge, ok |-> TRUE]
        ELSE [energy |-> 0, ok |-> FALSE]

Energy_charge_memory_alloc(energy, num_pages) ==
    LET to_charge == num_pages * MEMORY_COST_FACTOR
    IN  IF energy >= to_charge
        THEN [energy |-> energy - to_charge, ok |-> TRUE]
        ELSE [energy |-> 0, ok |-> FALSE]

\* machine::Host::tick_energy of InitHost
InitHost_tick_energy(energy, x) ==
    IF energy >= x
    THEN [energy |-> energy - x, ok |-> TRUE]
    ELSE [energy |-> 0, ok |-> FALSE]

\* mutant: a sign slip, the charged amount is added to the remaining energy
ReceiveHost_tick_energy_Adds(energy, x) ==
    IF energy >= x
    THEN [energy |-> energy + x, ok |-> TRUE]
    ELSE [energy |-> 0, ok |-> FALSE]

\* machine::Host::tick_energy of ReceiveHost
ReceiveHost_tick_energy(energy, x) ==
    IF energy >= x
    THEN [energy |-> energy - x, ok |-> TRUE]
    ELSE [energy |-> 0, ok |-> FALSE]

(***************************************************************************)
(* Outcome, the action list (lib.rs:105-179).                              *)
(***************************************************************************)
Accept == [tag |-> "Accept"]

SimpleTransfer(to_addr, amount) ==
    [tag |-> "SimpleTransfer", to_addr |-> to_addr, amount |-> amount]

Send(to_addr, name, amount, parameter) ==
    [tag |-> "Send", to_addr |-> to_addr, name |-> name, amount |-> amount,
     parameter |-> parameter]

And(l, r) == [tag |-> "And", l |-> l, r |-> r]

Or(l, r) == [tag |-> "Or", l |-> l, r |-> r]

Outcome_accept(cur_state) ==
    [cur_state |-> Append(cur_state, Accept), ok |-> TRUE, response |-> Len(cur_state)]

\* mutant: the response is taken after the push, so it is one past the index
\* of the new action
Outcome_simple_transfer_LenAfter(cur_state, bytes, amount) ==
    IF Len(bytes) = ACCOUNT_ADDRESS_SIZE
    THEN [cur_state |-> Append(cur_state, SimpleTransfer(bytes, amount)),
          ok |-> TRUE, response |-> Len(cur_state) + 1]
    ELSE [cur_state |-> cur_state, ok |-> FALSE, response |-> 0]

\* bytes.try_into() fails unless the slice has exactly 32 bytes
Outcome_simple_transfer(cur_state, bytes, amount) ==
    IF Len(bytes) = ACCOUNT_ADDRESS_SIZE
    THEN [cur_state |-> Append(cur_state, SimpleTransfer(bytes, amount)),
          ok |-> TRUE, response |-> Len(cur_state)]
    ELSE [cur_state |-> cur_state, ok |-> FALSE, response |-> 0]

\* char::is_ascii_alphanumeric || char::is_ascii_punctuation
IsAlnumOrPunct(c) ==
    \/ c \in 48..57
    \/ c \in 65..90
    \/ c \in 97..122
    \/ c \in 33..47
    \/ c \in 58..64
    \/ c \in 91..96
    \/ c \in 123..126

\* UTF-8: the length of the sequence a first byte opens (0 when no sequence
\* starts with it) and the second bytes each first byte admits
utf8_char_width(b) ==
    CASE b < 128 -> 1
      [] b \in 194..223 -> 2
      [] b \in 224..239 -> 3
      [] b \in 240..244 -> 4
      [] OTHER -> 0

utf8_second_ok(first, b) ==
    CASE first = 224 -> b \in 160..191
      [] first = 237 -> b \in 128..159
      [] first = 240 -> b \in 144..191
      [] first = 244 -> b \in 128..143
      [] OTHER -> b \in 128..191

\* Display of Utf8Error, valid_up_to counted from 0
Utf8Error(error_len, valid_up_to) ==
    [ok |-> FALSE,
     msg |-> IF error_len = 0
             THEN "incomplete utf-8 byte sequence from index " \o ToString(valid_up_to)
             ELSE "invalid utf-8 sequence of " \o ToString(error_len) \o " bytes from index "
                      \o ToString(valid_up_to)]

RECURSIVE run_utf8_validation(_, _)
\* the sequences of bytes from position i (from 1) on; error_len 0 is None,
\* the input ended inside a sequence
run_utf8_validation(bytes, i) ==
    IF i > Len(bytes) THEN [ok |-> TRUE, msg |-> ""]
    ELSE LET w == utf8_char_width(bytes[i])
             cont(k) == bytes[i + k] \in 128..191
         IN  IF w = 0 THEN Utf8Error(1, i - 1)
             ELSE IF w = 1 THEN run_utf8_validation(bytes, i + 1)
             ELSE IF i + 1 > Len(bytes) THEN Utf8Error(0, i - 1)
             ELSE IF ~utf8_second_ok(bytes[i], bytes[i + 1]) THEN Utf8Error(1, i - 1)
             ELSE IF w = 2 THEN run_utf8_validation(bytes, i + 2)
             ELSE IF i + 2 > Len(bytes) THEN Utf8Error(0, i - 1)
             ELSE IF ~cont(2) THEN Utf8Error(2, i - 1)
             ELSE IF w = 3 THEN run_utf8_validation(bytes, i + 3)
             ELSE IF i + 3 > Len(bytes) THEN Utf8Error(0, i - 1)
             ELSE IF ~cont(3) THEN Utf8Error(3, i - 1)
             ELSE run_utf8_validation(bytes, i + 4)

\* std::str::from_utf8 as Outcome::send uses it: Ok, or the error's text
from_utf8(bytes) == run_utf8_validation(bytes, 1)

\* types.rs:427-431
is_valid_receive_name(bs) ==
    LET valid_characters == \A i \in 1..Len(bs) : IsAlnumOrPunct(bs[i])
    IN  valid_characters /\ (\E i \in 1..Len(bs) : bs[i] = 46)

\* mutant: the action is pushed before the receive name is validated
Outcome_send_PushFirst(cur_state, addr_index, addr_subindex, receive_name_bytes, amount, parameter_bytes) ==
    [cur_state |-> Append(cur_state,
                          Send([index |-> addr_index, subindex |-> addr_subindex],
                               receive_name_bytes, amount, parameter_bytes)),
     ok |-> from_utf8(receive_name_bytes).ok /\ is_valid_receive_name(receive_name_bytes),
     msg |-> IF ~from_utf8(receive_name_bytes).ok THEN from_utf8(receive_name_bytes).msg
             ELSE IF ~is_valid_receive_name(receive_name_bytes)
             THEN "Not a valid receive name." ELSE "",
     response |-> Len(cur_state)]

Outcome_send(cur_state, addr_index, addr_subindex, receive_name_bytes, amount, parameter_bytes) ==
    IF ~from_utf8(receive_name_bytes).ok
    THEN [cur_state |-> cur_state, ok |-> FALSE, msg |-> from_utf8(receive_name_bytes).msg,
          response |-> 0]
    ELSE IF ~is_valid_receive_name(receive_name_bytes)
    THEN [cur_state |-> cur_state, ok |-> FALSE, msg |-> "Not a valid receive name.",
          response |-> 0]
    ELSE [cur_state |-> Append(cur_state,
                               Send([index |-> addr_index, subindex |-> addr_subindex],
                                    receive_name_bytes, amount, parameter_bytes)),
          ok |-> TRUE, msg |-> "", response |-> Len(cur_state)]

\* mutant: the bound check admits the index of the node being created
Outcome_combine_and_Le(cur_state, l, r) ==
    LET response == Len(cur_state)
    IN  IF l <= response /\ r <= response
        THEN [cur_state |-> Append(cur_state, And(l, r)), ok |-> TRUE,
              response |-> response]
        ELSE [cur_state |-> cur_state, ok |-> FALSE, response |-> 0]

Outcome_combine_and(cur_state, l, r) ==
    LET response == Len(cur_state)
    IN  IF l < response /\ r < response
        THEN [cur_state |-> Append(cur_state, And(l, r)), ok |-> TRUE,
              response |-> response]
        ELSE [cur_state |-> cur_state, ok |-> FALSE, response |-> 0]

\* mutant: only the left index is checked against the list
Outcome_combine_or_LeftOnly(cur_state, l, r) ==
    LET response == Len(cur_state)
    IN  IF l < response
        THEN [cur_state |-> Append(cur_state, Or(l, r)), ok |-> TRUE,
              response |-> response]
        ELSE [cur_state |-> cur_state, ok |-> FALSE, response |-> 0]

Outcome_combine_or(cur_state, l, r) ==
    LET response == Len(cur_state)
    IN  IF l < response /\ r < response
        THEN [cur_state |-> Append(cur_state, Or(l, r)), ok |-> TRUE,
              response |-> response]
        ELSE [cur_state |-> cur_state, ok |-> FALSE, response |-> 0]

(***************************************************************************)
(* State, the flat contract state (lib.rs:181-241).                        *)
(***************************************************************************)
\* State::new: None gives the empty state, Some(bytes) a copy of the bytes
State_new(st) == st

State_len(state) == Len(state)

\* mutant: the end of the write is not capped by MAX_CONTRACT_STATE
State_write_state_NoBound(state, offset, bytes) ==
    IF ~(offset <= State_len(state))
    THEN [state |-> state, res |-> "err", written |-> 0]
    ELSE LET end     == offset + Len(bytes)
             resized == IF State_len(state) < end THEN VecResize(state, end) ELSE state
         IN  IF offset > end
             THEN [state |-> resized, res |-> "panic", written |-> 0]
             ELSE LET w == SliceWrite(resized, offset, end, bytes)
                  IN  [state |-> w.mem, res |-> "ok", written |-> w.amt]

\* res is "ok", "err" (the ensure! failed) or "panic" (the slice
\* state[offset..end] has offset > end)
State_write_state(state, offset, bytes) ==
    IF ~(offset <= State_len(state))
    THEN [state |-> state, res |-> "err", written |-> 0]
    ELSE LET end     == Min(offset + Len(bytes), MAX_CONTRACT_STATE)
             resized == IF State_len(state) < end THEN VecResize(state, end) ELSE state
         IN  IF offset > end
             THEN [state |-> resized, res |-> "panic", written |-> 0]
             ELSE LET w == SliceWrite(resized, offset, end, bytes)
                  IN  [state |-> w.mem, res |-> "ok", written |-> w.amt]

\* copies state[offset..] into the front of a buffer of buflen bytes;
\* data is what was copied
State_load_state(state, offset, buflen) ==
    IF offset >= Len(state)
    THEN [data |-> <<>>, amt |-> 0]
    ELSE LET amt == Min(buflen, Len(state) - offset)
         IN  [data |-> Slice(state, offset, offset + amt), amt |-> amt]

\* mutant: the new size is not compared with MAX_CONTRACT_STATE
State_resize_state_NoBound(st, new_size) == [state |-> VecResize(st, new_size), ret |-> 1]

\* mutant: the comparison is >=, so a resize to exactly the maximum fails
State_resize_state_Ge(state, new_size) ==
    IF new_size >= MAX_CONTRACT_STATE
    THEN [state |-> state, ret |-> 0]
    ELSE [state |-> VecResize(state, new_size), ret |-> 1]

State_resize_state(state, new_size) ==
    IF new_size > MAX_CONTRACT_STATE
    THEN [state |-> state, ret |-> 0]
    ELSE [state |-> VecResize(state, new_size), ret |-> 1]

(***************************************************************************)
(* Logs (lib.rs:27-54).                                                    *)
(***************************************************************************)
Logs_new == <<>>

\* mutant: the event is pushed at the front of the list
Logs_log_event_PushFront(logs, event) == <<event>> \o logs

\* LinkedList::push_back
Logs_log_event(logs, event) == Append(logs, event)

RECURSIVE be_byte(_, _)
\* byte i (from 0, least significant first) of n
be_byte(n, i) == IF i = 0 THEN n % 256 ELSE be_byte(n \div 256, i - 1)

\* u32::to_be_bytes
u32_to_be_bytes(n) == [i \in 1..4 |-> be_byte(n, 4 - i)]

RECURSIVE Logs_iterate(_, _)
\* the loop of Logs::to_bytes from event i on: each event as its length and
\* its bytes
Logs_iterate(logs, i) ==
    IF i > Len(logs)
    THEN <<>>
    ELSE u32_to_be_bytes(Len(logs[i])) \o logs[i] \o Logs_iterate(logs, i + 1)

Logs_to_bytes(logs) == u32_to_be_bytes(Len(logs)) \o Logs_iterate(logs, 1)

(***************************************************************************)
(* The contexts handed to the host (InitContext, ReceiveContext).          *)
(***************************************************************************)
RECURSIVE le_byte(_, _)
\* byte i (from 0) of the little-endian encoding of n
le_byte(n, i) == IF i = 0 THEN n % 256 ELSE le_byte(n \div 256, i - 1)

\* u64::to_le_bytes
to_le_bytes(n) == [i \in 1..8 |-> le_byte(n, i - 1)]

init_ctx ==
    [metadata    |-> [slot_number |-> 11, slot_time |-> 12, block_height |-> 13,
                      finalized_height |-> 14],
     init_origin |-> Repeat(9, ACCOUNT_ADDRESS_SIZE)]

receive_ctx ==
    [metadata     |-> [slot_number |-> 11, slot_time |-> 12, block_height |-> 13,
                       finalized_height |-> 14],
     invoker      |-> Repeat(8, ACCOUNT_ADDRESS_SIZE),
     self_address |-> [index |-> 258, subindex |-> 3],
     self_balance |-> 5,
     sender       |-> [tag |-> "Account", address |-> Repeat(6, ACCOUNT_ADDRESS_SIZE)],
     owner        |-> Repeat(7, ACCOUNT_ADDRESS_SIZE)]

\* contracts_common::to_bytes of an Address: a tag byte, then the account
\* address or the little-endian index and subindex
Address_to_bytes(addr) ==
    IF addr.tag = "Account"
    THEN <<0>> \o addr.address
    ELSE <<1>> \o to_le_bytes(addr.index) \o to_le_bytes(addr.subindex)

(***************************************************************************)
(* Import tables.  A module imports a fixed set of host functions; the     *)
(* model draws the table from these families, each with the memory image,  *)
(* parameter and energy range of the modules it stands for.                *)
(***************************************************************************)
MeteringFuncs == {"ChargeEnergy", "ChargeStackSize", "ChargeMemoryAlloc"}

StateFuncs == {"LoadState", "WriteState", "ResizeState", "StateSize"}

ParameterFuncs == {"GetParameterSize", "GetParameterSection"}

LogFuncs == {"LogEvent"}

ActionFuncs == {"Accept", "SimpleTransfer", "Send", "CombineAnd", "CombineOr"}

ContextFuncs ==
    {"GetInitOrigin", "GetReceiveInvoker", "GetReceiveSelfAddress", "GetReceiveSelfBalance",
     "GetReceiveSender", "GetReceiveOwner", "GetSlotNumber", "GetSlotTime", "GetBlockHeight",
     "GetFinalizedHeight"}

\* a short data segment: the bytes 1, 2, 1, ...
DataImage == [i \in 1..MemSmall |-> 2 - (i % 2)]

\* the receive name "a." followed by a space, the byte 0xFF and zeros
NameImage ==
    [i \in 1..MemBig |->
        IF i = 1 THEN 97 ELSE IF i = 2 THEN 46 ELSE IF i = 3 THEN 32
        ELSE IF i = 4 THEN 255 ELSE 0]

Families ==
    { [imports |-> MeteringFuncs, memory |-> <<>>, energies |-> 0..MaxEnergy,
       params |-> {<<>>}, states |-> {<<>>}],
      [imports |-> StateFuncs, memory |-> DataImage,
       energies |-> 0..SmallEnergy, params |-> {<<>>}, states |-> {<<>>, <<2>>}],
      [imports |-> ParameterFuncs, memory |-> DataImage,
       energies |-> 0..SmallEnergy, params |-> {<<>>, <<2, 1>>}, states |-> {<<>>}],
      [imports |-> LogFuncs, memory |-> DataImage,
       energies |-> 0..SmallEnergy, params |-> {<<>>}, states |-> {<<>>}],
      [imports |-> ActionFuncs \cup {"GetInitOrigin"}, memory |-> NameImage,
       energies |-> 0..SmallEnergy, params |-> {<<>>}, states |-> {<<2>>}],
      [imports |-> ContextFuncs, memory |-> Repeat(0, MemBig),
       energies |-> 0..SmallEnergy, params |-> {<<>>}, states |-> {<<2>>}] }

(***************************************************************************)
(* Inputs of the host calls.                                               *)
(***************************************************************************)
Amounts == 0..MaxAmount

\* the contracts a message is sent to, as (index, subindex): the contract
\* itself and another one
SendTargets == {<<258, 3>>, <<5, 7>>}

Pages == 0..MaxPages

\* pointers and lengths into a short memory, in and out of range
SmallPtrs == {0, 1, MemSmall, MemSmall + 1}

SmallLens == {0, 1, MemSmall}

\* offsets into the contract state and the parameter, in and out of range
Offsets == {0, 1, MAX_CONTRACT_STATE, MAX_CONTRACT_STATE + 1}

\* offsets of a write into the contract state: also the last byte below the
\* maximum
WriteOffsets == Offsets \cup {MAX_CONTRACT_STATE - 1}

\* pointers into a memory that holds addresses, in and out of range
BigPtrs == {0, 1, MemBig - 16, MemBig - 1, MemBig, MemBig + 1}

\* pointers to the address of a transfer: the start of the memory, the
\* last 31 bytes, past the end
TransferPtrs == {0, MemBig - 31, MemBig + 1}

\* (start, length) of the receive name of a send: "a.", "a", " ", 0xFF, and
\* a byte past the end
NameRanges == {<<0, 2>>, <<0, 1>>, <<2, 1>>, <<3, 1>>, <<MemBig, 1>>}

\* (start, length) of the parameter of a send: one byte, and a byte past
\* the end
ParameterRanges == {<<0, 1>>, <<MemBig, 1>>}

\* the i32 a guest entrypoint may return
Returns == (-1)..MaxActions

(***************************************************************************)
(* State of one invocation.                                                *)
(***************************************************************************)
VARIABLES
    kind,           \* Which: "init" (InitHost) or "receive" (ReceiveHost)
    imports,        \* the tags of the artifact's import table
    energy,         \* host.energy.energy
    logs,           \* host.logs.logs
    state,          \* host.state.state
    outcomes,       \* host.outcomes.cur_state (receive only)
    param,          \* host.param
    memory,         \* the guest's linear memory
    current_state,  \* the caller's current_state bytes (receive only)
    phase,          \* "running" while artifact.run executes, then "done"
    lastOp,         \* the last callback or return of the interpreter
    result,         \* what invoke_init / invoke_receive returned
    handle_in,      \* handles: the (option of) generation and index a handle is built from
    handle_out,     \* handles: the handle built, and what split reads back from it
    state_imports,  \* v1: the state functions the module imports
    current_generation, \* v1: InstanceState::current_generation
    entry_mapping,  \* v1: InstanceState::entry_mapping
    iterators,      \* v1: InstanceState::iterators
    state_trie,     \* v1: the mutable trie behind InstanceState::state_trie
    resumes,        \* v1: how often the contract was re-entered after an interrupt
    issued,         \* v1: the handles the guest was given, with the generation that gave them
    yielded,        \* v1: per iterator, the keys iterator_next has yielded, and whether it ended
    lastCall,       \* v1: the last call of an InstanceState method
    inserted,       \* trie: the key-value pairs inserted so far
    checkpoint,     \* trie: the snapshot taken when an invoke suspended execution
    input,          \* a function of the validation and serialization code, and its arguments
    output,         \* what that function returned
    mutable_state,  \* v1: the mutex of a mutable state and the tasks that use the state
    escrow          \* the escrow contract: its state, balance and last message

\* the state of the handle constructors (v1/types.rs:496-597)
hvars == <<handle_in, handle_out>>

\* the state of an instance state facade (v1/types.rs:480-494)
svars ==
    <<state_imports, current_generation, entry_mapping, iterators, state_trie, resumes, issued,
      yielded, lastCall>>

\* the history of a trie, and a function applied to its arguments
cvars == <<mutable_state, escrow>>

xvars == <<inserted, checkpoint, input, output, cvars>>

vars ==
    <<kind, imports, energy, logs, state, outcomes, param, memory, current_state, phase,
      lastOp, result, hvars, svars, xvars>>

\* a callback: its name, two scalar arguments, how it ended ("ok", "err",
\* "panic"), the error message, the value pushed on the stack, whether one
\* of its pointer ranges lies outside the memory, and the remaining energy
\* when it was called
Op(op, a, b, res, msg, ret, oob) ==
    [op |-> op, a |-> a, b |-> b, res |-> res, msg |-> msg, ret |-> ret, oob |-> oob,
     pre |-> energy]

NoResult == [tag |-> "None"]

\* no handle is being built (the v0 host has none)
NoHandle == [tag |-> "None"]

\* no instance state facade exists (the v0 host has a flat state)
StateIdle ==
    /\ state_imports = {}
    /\ current_generation = <<0, 0>>
    /\ entry_mapping = <<>>
    /\ iterators = <<>>
    /\ state_trie = [tag |-> "None"]
    /\ resumes = 0
    /\ issued = {}
    /\ yielded = <<>>
    /\ lastCall = [op |-> "none"]

\* no task uses a mutable state and no escrow is deployed
ContractsIdle == mutable_state = [tag |-> "None"] /\ escrow = [tag |-> "None"]

\* no trie history is kept and no function is being applied
ExtIdle ==
    /\ ContractsIdle
    /\ inserted = {}
    /\ checkpoint = [tag |-> "None"]
    /\ input = [fn |-> "none"]
    /\ output = [tag |-> "None"]

Init ==
    \E k \in {"init", "receive"}, f \in Families :
        /\ kind = k
        /\ imports = f.imports
        /\ energy \in f.energies
        /\ logs = Logs_new
        /\ current_state \in (IF k = "init" THEN {<<>>} ELSE f.states)
        /\ state = State_new(current_state)
        /\ outcomes = <<>>
        /\ param \in f.params
        /\ memory = f.memory
        /\ phase = "running"
        /\ lastOp = Op("none", 0, 0, "ok", "", 0, FALSE)
        /\ result = NoResult
        /\ handle_in = NoHandle
        /\ handle_out = NoHandle
        /\ StateIdle
        /\ ExtIdle

(***************************************************************************)
(* How a callback ends: Ok lets artifact.run continue; Err makes            *)
(* artifact.run fail, which the `?` of invoke_init / invoke_receive hands   *)
(* to the caller; a panic unwinds out of the invocation.                    *)
(***************************************************************************)
Continue == UNCHANGED <<phase, result>>

Fail(msg) == phase' = "done" /\ result' = [tag |-> "Err", msg |-> msg]

Abort == phase' = "done" /\ result' = [tag |-> "Panic"]

Ends(res, msg) ==
    IF res = "ok" THEN Continue ELSE IF res = "err" THEN Fail(msg) ELSE Abort

OkOrErr(ok) == IF ok THEN "ok" ELSE "err"

(***************************************************************************)
(* Energy callbacks (lib.rs:368-396, 498-522).                             *)
(***************************************************************************)
Charge(op, amount, r) ==
    /\ energy' = r.energy
    /\ lastOp' = Op(op, amount, 0, OkOrErr(r.ok), IF r.ok THEN "" ELSE "Out of energy.", 0,
                    FALSE)
    /\ Ends(OkOrErr(r.ok), "Out of energy.")
    /\ UNCHANGED <<kind, imports, logs, state, outcomes, param, memory, current_state, hvars,
                   svars, xvars>>

TickEnergy(x) ==
    /\ phase = "running"
    /\ Charge("tick_energy", x,
              IF kind = "init" THEN InitHost_tick_energy(energy, x)
              ELSE ReceiveHost_tick_energy(energy, x))

CallChargeEnergy(amount) ==
    /\ phase = "running"
    /\ "ChargeEnergy" \in imports
    /\ Charge("ChargeEnergy", amount, Energy_tick_energy(energy, amount))

CallChargeStackSize(amount) ==
    /\ phase = "running"
    /\ "ChargeStackSize" \in imports
    /\ Charge("ChargeStackSize", amount, Energy_charge_stack(energy, amount))

CallChargeMemoryAlloc(num_pages) ==
    /\ phase = "running"
    /\ "ChargeMemoryAlloc" \in imports
    /\ Charge("ChargeMemoryAlloc", num_pages, Energy_charge_memory_alloc(energy, num_pages))

(***************************************************************************)
(* call_common (lib.rs:298-366).                                           *)
(***************************************************************************)
HostFrame == UNCHANGED <<kind, imports, energy, param, current_state, hvars, svars, xvars>>

metadata == IF kind = "init" THEN init_ctx.metadata ELSE receive_ctx.metadata

GetParameterSize ==
    /\ phase = "running"
    /\ "GetParameterSize" \in imports
    /\ lastOp' = Op("GetParameterSize", 0, 0, "ok", "", Len(param), FALSE)
    /\ Continue
    /\ HostFrame
    /\ UNCHANGED <<logs, state, outcomes, memory>>

GetParameterSection(start, length, offset) ==
    /\ phase = "running"
    /\ "GetParameterSection" \in imports
    /\ LET write_end == start + length
           oob       == write_end > Len(memory)
           end       == Min(offset + length, Len(param))
       IN  IF ~(write_end <= Len(memory))
           THEN /\ lastOp' = Op("GetParameterSection", 0, 0, "err", "Illegal memory access.",
                                0, oob)
                /\ Fail("Illegal memory access.")
                /\ UNCHANGED memory
           ELSE IF ~(offset <= end)
           THEN /\ lastOp' = Op("GetParameterSection", 0, 0, "err",
                                "Attempting to read non-existent parameter.", 0, oob)
                /\ Fail("Attempting to read non-existent parameter.")
                /\ UNCHANGED memory
           ELSE LET w == SliceWrite(memory, start, write_end, Slice(param, offset, end))
                IN  /\ memory' = w.mem
                    /\ lastOp' = Op("GetParameterSection", 0, 0, "ok", "", w.amt, oob)
                    /\ Continue
    /\ HostFrame
    /\ UNCHANGED <<logs, state, outcomes>>

LogEvent(start, length) ==
    /\ phase = "running"
    /\ "LogEvent" \in imports
    /\ Len(logs) < MaxLogs
    /\ LET end == start + length
           oob == end > Len(memory)
       IN  IF ~(end <= Len(memory))
           THEN /\ lastOp' = Op("LogEvent", 0, 0, "err", "Illegal memory access.", 0, oob)
                /\ Fail("Illegal memory access.")
                /\ UNCHANGED logs
           ELSE /\ logs' = Logs_log_event(logs, Slice(memory, start, end))
                /\ lastOp' = Op("LogEvent", 0, Slice(memory, start, end), "ok", "", 0, oob)
                /\ Continue
    /\ HostFrame
    /\ UNCHANGED <<state, outcomes, memory>>

LoadState(start, length, offset) ==
    /\ phase = "running"
    /\ "LoadState" \in imports
    /\ LET end == start + length
           oob == end > Len(memory)
       IN  IF ~(end <= Len(memory))
           THEN /\ lastOp' = Op("LoadState", 0, 0, "err", "Illegal memory access.", 0, oob)
                /\ Fail("Illegal memory access.")
                /\ UNCHANGED memory
           ELSE LET res == State_load_state(state, offset, end - start)
                IN  /\ memory' = SliceWrite(memory, start, end, res.data).mem
                    /\ lastOp' = Op("LoadState", 0, 0, "ok", "", res.amt, oob)
                    /\ Continue
    /\ HostFrame
    /\ UNCHANGED <<logs, state, outcomes>>

WriteState(start, length, offset) ==
    /\ phase = "running"
    /\ "WriteState" \in imports
    /\ LET end == start + length
           oob == end > Len(memory)
       IN  IF ~(end <= Len(memory))
           THEN /\ lastOp' = Op("WriteState", offset, <<>>, "err", "Illegal memory access.", 0,
                                oob)
                /\ Fail("Illegal memory access.")
                /\ UNCHANGED state
           ELSE LET bytes == Slice(memory, start, end)
                    res   == State_write_state(state, offset, bytes)
                    msg   == IF res.res = "err" THEN "Cannot write past the offset." ELSE ""
                IN  /\ state' = res.state
                    /\ lastOp' = Op("WriteState", offset, bytes, res.res, msg, res.written, oob)
                    /\ Ends(res.res, msg)
    /\ HostFrame
    /\ UNCHANGED <<logs, outcomes, memory>>

ResizeState(new_size) ==
    /\ phase = "running"
    /\ "ResizeState" \in imports
    /\ LET res == State_resize_state(state, new_size)
       IN  /\ state' = res.state
           /\ lastOp' = Op("ResizeState", new_size, 0, "ok", "", res.ret, FALSE)
    /\ Continue
    /\ HostFrame
    /\ UNCHANGED <<logs, outcomes, memory>>

StateSize ==
    /\ phase = "running"
    /\ "StateSize" \in imports
    /\ lastOp' = Op("StateSize", 0, 0, "ok", "", State_len(state), FALSE)
    /\ Continue
    /\ HostFrame
    /\ UNCHANGED <<logs, state, outcomes, memory>>

\* GetSlotNumber, GetSlotTime, GetBlockHeight, GetFinalizedHeight
GetMetadata(f) ==
    /\ phase = "running"
    /\ f \in imports
    /\ lastOp' = Op(f, 0, 0, "ok", "",
                    CASE f = "GetSlotNumber" -> metadata.slot_number
                      [] f = "GetSlotTime" -> metadata.slot_time
                      [] f = "GetBlockHeight" -> metadata.block_height
                      [] f = "GetFinalizedHeight" -> metadata.finalized_height,
                    FALSE)
    /\ Continue
    /\ HostFrame
    /\ UNCHANGED <<logs, state, outcomes, memory>>

(***************************************************************************)
(* InitHost::call, init-only part (lib.rs:398-405) and the ReceiveHost     *)
(* refusal of it (lib.rs:525-527).                                         *)
(***************************************************************************)
\* ensure!(start <= memory.len(), msg), then memory[start..start + 32],
\* which panics when start + 32 exceeds the memory
WriteAddressUnchecked(op, start, bytes, msg) ==
    LET oob == start + Len(bytes) > Len(memory)
    IN  IF ~(start <= Len(memory))
        THEN /\ lastOp' = Op(op, start, 0, "err", msg, 0, oob)
             /\ Fail(msg)
             /\ UNCHANGED memory
        ELSE IF start + ACCOUNT_ADDRESS_SIZE > Len(memory)
        THEN /\ lastOp' = Op(op, start, 0, "panic", "", 0, oob)
             /\ Abort
             /\ UNCHANGED memory
        ELSE LET w == SliceWriteAll(memory, start, start + ACCOUNT_ADDRESS_SIZE, bytes)
             IN  /\ memory' = w.mem
                 /\ lastOp' = Op(op, start, 0, OkOrErr(w.ok), "", 0, oob)
                 /\ Ends(OkOrErr(w.ok), "failed to write whole buffer")

NotImplemented(op, msg) ==
    /\ lastOp' = Op(op, 0, 0, "err", msg, 0, FALSE)
    /\ Fail(msg)
    /\ UNCHANGED <<logs, state, outcomes, memory>>

GetInitOrigin(start) ==
    /\ phase = "running"
    /\ "GetInitOrigin" \in imports
    /\ IF kind = "init"
       THEN /\ WriteAddressUnchecked("GetInitOrigin", start, init_ctx.init_origin,
                                       "Illegal memory access for init origin.")
            /\ UNCHANGED <<logs, state, outcomes>>
       ELSE NotImplemented("GetInitOrigin", "Not implemented for receive.")
    /\ HostFrame

(***************************************************************************)
(* ReceiveHost::call_receive_only (lib.rs:411-496) and the InitHost        *)
(* refusal of it (lib.rs:403-405).                                         *)
(***************************************************************************)
CallAccept ==
    /\ phase = "running"
    /\ "Accept" \in imports
    /\ Len(outcomes) < MaxActions
    /\ IF kind = "init"
       THEN NotImplemented("Accept", "Not implemented for init.")
       ELSE LET res == Outcome_accept(outcomes)
            IN  /\ outcomes' = res.cur_state
                /\ lastOp' = Op("Accept", 0, 0, "ok", "", res.response, FALSE)
                /\ Continue
                /\ UNCHANGED <<logs, state, memory>>
    /\ HostFrame

CallSimpleTransfer(addr_start, amount) ==
    /\ phase = "running"
    /\ "SimpleTransfer" \in imports
    /\ Len(outcomes) < MaxActions
    /\ IF kind = "init"
       THEN NotImplemented("SimpleTransfer", "Not implemented for init.")
       ELSE LET oob == addr_start + ACCOUNT_ADDRESS_SIZE > Len(memory)
            IN  IF ~(addr_start + ACCOUNT_ADDRESS_SIZE <= Len(memory))
                THEN /\ lastOp' = Op("SimpleTransfer", addr_start, amount, "err",
                                     "Illegal memory access.", 0, oob)
                     /\ Fail("Illegal memory access.")
                     /\ UNCHANGED <<logs, state, outcomes, memory>>
                ELSE LET res == Outcome_simple_transfer(
                                    outcomes,
                                    Slice(memory, addr_start, addr_start + ACCOUNT_ADDRESS_SIZE),
                                    amount)
                     IN  /\ outcomes' = res.cur_state
                         /\ lastOp' = Op("SimpleTransfer", addr_start, amount, OkOrErr(res.ok),
                                         "", res.response, oob)
                         /\ Ends(OkOrErr(res.ok), "could not convert slice to array")
                         /\ UNCHANGED <<logs, state, memory>>
    /\ HostFrame

CallSend(addr_index, addr_subindex, receive_name_start, receive_name_len, parameter_start, parameter_len, amount) ==
    /\ phase = "running"
    /\ "Send" \in imports
    /\ Len(outcomes) < MaxActions
    /\ IF kind = "init"
       THEN NotImplemented("Send", "Not implemented for init.")
       ELSE LET parameter_end    == parameter_start + parameter_len
                receive_name_end == receive_name_start + receive_name_len
                oob == parameter_end > Len(memory) \/ receive_name_end > Len(memory)
            IN  IF ~(parameter_end <= Len(memory)) \/ ~(receive_name_end <= Len(memory))
                THEN /\ lastOp' = Op("Send", 0, 0, "err", "Illegal memory access.", 0, oob)
                     /\ Fail("Illegal memory access.")
                     /\ UNCHANGED <<logs, state, outcomes, memory>>
                ELSE LET res == Outcome_send(
                                    outcomes, addr_index, addr_subindex,
                                    Slice(memory, receive_name_start, receive_name_end), amount,
                                    Slice(memory, parameter_start, parameter_end))
                     IN  /\ outcomes' = res.cur_state
                         /\ lastOp' = Op("Send", 0, 0, OkOrErr(res.ok), res.msg, res.response,
                                         oob)
                         /\ Ends(OkOrErr(res.ok), res.msg)
                         /\ UNCHANGED <<logs, state, memory>>
    /\ HostFrame

CallCombineAnd(left, right) ==
    /\ phase = "running"
    /\ "CombineAnd" \in imports
    /\ Len(outcomes) < MaxActions
    /\ IF kind = "init"
       THEN NotImplemented("CombineAnd", "Not implemented for init.")
       ELSE LET res == Outcome_combine_and(outcomes, left, right)
                msg == IF res.ok THEN "" ELSE "Combining unknown actions."
            IN  /\ outcomes' = res.cur_state
                /\ lastOp' = Op("CombineAnd", left, right, OkOrErr(res.ok), msg, res.response,
                                FALSE)
                /\ Ends(OkOrErr(res.ok), msg)
                /\ UNCHANGED <<logs, state, memory>>
    /\ HostFrame

CallCombineOr(left, right) ==
    /\ phase = "running"
    /\ "CombineOr" \in imports
    /\ Len(outcomes) < MaxActions
    /\ IF kind = "init"
       THEN NotImplemented("CombineOr", "Not implemented for init.")
       ELSE LET res == Outcome_combine_or(outcomes, left, right)
                msg == IF res.ok THEN "" ELSE "Combining unknown actions."
            IN  /\ outcomes' = res.cur_state
                /\ lastOp' = Op("CombineOr", left, right, OkOrErr(res.ok), msg, res.response,
                                FALSE)
                /\ Ends(OkOrErr(res.ok), msg)
                /\ UNCHANGED <<logs, state, memory>>
    /\ HostFrame

GetReceiveInvoker(start) ==
    /\ phase = "running"
    /\ "GetReceiveInvoker" \in imports
    /\ IF kind = "init"
       THEN NotImplemented("GetReceiveInvoker", "Not implemented for init.")
       ELSE /\ WriteAddressUnchecked("GetReceiveInvoker", start, receive_ctx.invoker,
                                       "Illegal memory access for receive owner.")
            /\ UNCHANGED <<logs, state, outcomes>>
    /\ HostFrame

GetReceiveSelfAddress(start) ==
    /\ phase = "running"
    /\ "GetReceiveSelfAddress" \in imports
    /\ IF kind = "init"
       THEN NotImplemented("GetReceiveSelfAddress", "Not implemented for init.")
       ELSE /\ LET oob == start + 16 > Len(memory)
               IN  IF ~(start + 16 <= Len(memory))
                   THEN /\ lastOp' = Op("GetReceiveSelfAddress", start, 0, "err",
                                        "Illegal memory access for receive owner.", 0, oob)
                        /\ Fail("Illegal memory access for receive owner.")
                        /\ UNCHANGED memory
                   ELSE LET w1 == SliceWriteAll(memory, start, start + 8,
                                                to_le_bytes(receive_ctx.self_address.index))
                            w2 == SliceWriteAll(w1.mem, start + 8, start + 16,
                                                to_le_bytes(receive_ctx.self_address.subindex))
                        IN  /\ memory' = w2.mem
                            /\ lastOp' = Op("GetReceiveSelfAddress", start, 0, "ok", "", 0, oob)
                            /\ Continue
            /\ UNCHANGED <<logs, state, outcomes>>
    /\ HostFrame

GetReceiveSelfBalance ==
    /\ phase = "running"
    /\ "GetReceiveSelfBalance" \in imports
    /\ IF kind = "init"
       THEN NotImplemented("GetReceiveSelfBalance", "Not implemented for init.")
       ELSE /\ lastOp' = Op("GetReceiveSelfBalance", 0, 0, "ok", "", receive_ctx.self_balance,
                            FALSE)
            /\ Continue
            /\ UNCHANGED <<logs, state, outcomes, memory>>
    /\ HostFrame

\* the whole tail memory[start..] is the destination: write_all fills what
\* fits and fails when the serialized address is longer
GetReceiveSender(start) ==
    /\ phase = "running"
    /\ "GetReceiveSender" \in imports
    /\ IF kind = "init"
       THEN NotImplemented("GetReceiveSender", "Not implemented for init.")
       ELSE /\ LET bytes == Address_to_bytes(receive_ctx.sender)
                   oob   == start + Len(bytes) > Len(memory)
               IN  IF ~(start <= Len(memory))
                   THEN /\ lastOp' = Op("GetReceiveSender", start, 0, "err",
                                        "Illegal memory access for receive owner.", 0, oob)
                        /\ Fail("Illegal memory access for receive owner.")
                        /\ UNCHANGED memory
                   ELSE LET w == SliceWriteAll(memory, start, Len(memory), bytes)
                            msg == IF w.ok THEN "" ELSE "failed to write whole buffer"
                        IN  /\ memory' = w.mem
                            /\ lastOp' = Op("GetReceiveSender", start, 0, OkOrErr(w.ok), msg, 0,
                                            oob)
                            /\ Ends(OkOrErr(w.ok), msg)
            /\ UNCHANGED <<logs, state, outcomes>>
    /\ HostFrame

GetReceiveOwner(start) ==
    /\ phase = "running"
    /\ "GetReceiveOwner" \in imports
    /\ IF kind = "init"
       THEN NotImplemented("GetReceiveOwner", "Not implemented for init.")
       ELSE /\ WriteAddressUnchecked("GetReceiveOwner", start, receive_ctx.owner,
                                       "Illegal memory access for receive owner.")
            /\ UNCHANGED <<logs, state, outcomes>>
    /\ HostFrame

(***************************************************************************)
(* The end of artifact.run and the result of invoke_init (lib.rs:535-566)  *)
(* and invoke_receive (lib.rs:594-645).                                    *)
(***************************************************************************)
\* res is Some(Value::I32(n))
invoke_init(n, host_energy, host_logs, host_state) ==
    LET remaining_energy == host_energy
    IN  IF n = 0
        THEN [tag |-> "Success", logs |-> host_logs, state |-> host_state,
              remaining_energy |-> remaining_energy]
        ELSE [tag |-> "Reject", remaining_energy |-> remaining_energy]

\* mutant: the sign of n is not tested before the bound, so a negative n
\* yields Success with an empty action list
invoke_receive_NoSign(n, host_energy, host_logs, host_state, host_outcomes) ==
    LET remaining_energy == host_energy
        actions          == host_outcomes
    IN  IF n < Len(actions)
        THEN [tag |-> "Success", logs |-> host_logs, state |-> host_state,
              actions |-> SubSeq(actions, 1, IF n >= 0 THEN n + 1 ELSE 0),
              remaining_energy |-> remaining_energy]
        ELSE [tag |-> "Err", msg |-> "Invalid return."]

\* mutant: the list is truncated to n instead of n + 1 actions
invoke_receive_TruncN(n, host_energy, host_logs, host_state, host_outcomes) ==
    LET remaining_energy == host_energy
        actions          == host_outcomes
    IN  IF n >= 0 /\ n < Len(actions)
        THEN [tag |-> "Success", logs |-> host_logs, state |-> host_state,
              actions |-> SubSeq(actions, 1, n), remaining_energy |-> remaining_energy]
        ELSE IF n >= 0
        THEN [tag |-> "Err", msg |-> "Invalid return."]
        ELSE [tag |-> "Reject", remaining_energy |-> remaining_energy]

invoke_receive(n, host_energy, host_logs, host_state, host_outcomes) ==
    LET remaining_energy == host_energy
        actions          == host_outcomes
    IN  IF n >= 0 /\ n < Len(actions)
        THEN [tag |-> "Success", logs |-> host_logs, state |-> host_state,
              actions |-> SubSeq(actions, 1, n + 1), remaining_energy |-> remaining_energy]
        ELSE IF n >= 0
        THEN [tag |-> "Err", msg |-> "Invalid return."]
        ELSE [tag |-> "Reject", remaining_energy |-> remaining_energy]

\* the entrypoint returns the i32 n
Return(n) ==
    /\ phase = "running"
    /\ phase' = "done"
    /\ lastOp' = Op("return", n, 0, "ok", "", 0, FALSE)
    /\ result' = IF kind = "init"
                 THEN invoke_init(n, energy, logs, state)
                 ELSE invoke_receive(n, energy, logs, state, outcomes)
    /\ UNCHANGED <<kind, imports, energy, logs, state, outcomes, param, memory, current_state,
                   hvars, svars, xvars>>

\* the guest traps by itself (unreachable, division by zero, ...)
Trap ==
    /\ phase = "running"
    /\ phase' = "done"
    /\ lastOp' = Op("trap", 0, 0, "err", "trap", 0, FALSE)
    /\ result' = [tag |-> "Err", msg |-> "trap"]
    /\ UNCHANGED <<kind, imports, energy, logs, state, outcomes, param, memory, current_state,
                   hvars, svars, xvars>>

Next ==
    \/ \E x \in Amounts : TickEnergy(x)
    \/ \E amount \in Amounts : CallChargeEnergy(amount)
    \/ \E amount \in Amounts : CallChargeStackSize(amount)
    \/ \E num_pages \in Pages : CallChargeMemoryAlloc(num_pages)
    \/ GetParameterSize
    \/ \E start \in SmallPtrs, length \in SmallLens, offset \in Offsets :
          GetParameterSection(start, length, offset)
    \/ \E start \in SmallPtrs, length \in SmallLens : LogEvent(start, length)
    \/ \E start \in SmallPtrs, length \in SmallLens, offset \in Offsets :
          LoadState(start, length, offset)
    \/ \E start \in SmallPtrs, length \in SmallLens, offset \in WriteOffsets :
          WriteState(start, length, offset)
    \/ \E new_size \in Offsets : ResizeState(new_size)
    \/ StateSize
    \/ \E f \in {"GetSlotNumber", "GetSlotTime", "GetBlockHeight", "GetFinalizedHeight"} :
          GetMetadata(f)
    \/ \E start \in BigPtrs : GetInitOrigin(start)
    \/ CallAccept
    \/ \E addr_start \in TransferPtrs : CallSimpleTransfer(addr_start, receive_ctx.self_balance)
    \/ \E to \in SendTargets, name \in NameRanges, parameter \in ParameterRanges :
          CallSend(to[1], to[2], name[1], name[2], parameter[1], parameter[2],
                   receive_ctx.self_balance)
    \/ \E left \in 0..MaxActions, right \in 0..MaxActions : CallCombineAnd(left, right)
    \/ \E left \in 0..MaxActions, right \in 0..MaxActions : CallCombineOr(left, right)
    \/ \E start \in BigPtrs : GetReceiveInvoker(start)
    \/ \E start \in BigPtrs : GetReceiveSelfAddress(start)
    \/ GetReceiveSelfBalance
    \/ \E start \in BigPtrs : GetReceiveSender(start)
    \/ \E start \in BigPtrs : GetReceiveOwner(start)
    \/ \E n \in Returns : Return(n)
    \/ Trap

Spec == Init /\ [][Next]_vars

(***************************************************************************)
(* 64-bit words.  A u64 is four 16-bit limbs and a u32 two, least          *)
(* significant first, so that the top bits of a handle are represented.    *)
(***************************************************************************)
RECURSIVE BitOr(_, _, _)
\* a | b on n-bit numbers
BitOr(a, b, n) ==
    IF n = 0 THEN 0
    ELSE (IF a % 2 = 1 \/ b % 2 = 1 THEN 1 ELSE 0) + 2 * BitOr(a \div 2, b \div 2, n - 1)

RECURSIVE BitAnd(_, _, _)
\* a & b on n-bit numbers
BitAnd(a, b, n) ==
    IF n = 0 THEN 0
    ELSE (IF a % 2 = 1 /\ b % 2 = 1 THEN 1 ELSE 0) + 2 * BitAnd(a \div 2, b \div 2, n - 1)

U64Or(x, y) == [i \in 1..4 |-> BitOr(x[i], y[i], 16)]

U64And(x, y) == [i \in 1..4 |-> BitAnd(x[i], y[i], 16)]

\* x << 32 and x >> 32 on a u64
U64Shl32(x) == <<0, 0, x[1], x[2]>>

U64Shr32(x) == <<x[3], x[4], 0, 0>>

\* u64::from(gen) and `as u32`
U64FromU32(g) == <<g[1], g[2], 0, 0>>

U32FromU64(x) == <<x[1], x[2]>>

\* a small number as a u32 and as a usize
U32(n) == <<n % 65536, n \div 65536>>

Usize(n) == <<n % 65536, n \div 65536, 0, 0>>

\* 0xffff_ffff, 0x7fff_ffff and 1u64 << 63
MASK_INDEX == <<65535, 65535, 0, 0>>

MASK_GENERATION == <<65535, 32767, 0, 0>>

OPTION_TAG == <<0, 0, 0, 32768>>

(***************************************************************************)
(* Entry and iterator handles (v1/types.rs:496-597).                       *)
(***************************************************************************)
\* mutant: the generation is read without masking off the option tag
InstanceStateEntry_split_NoMask(index) ==
    LET idx        == U64And(index, MASK_INDEX)
        generation == U64Shr32(index)
    IN  [generation |-> U32FromU64(generation), idx |-> idx]

InstanceStateEntry_split(index) ==
    LET idx        == U64And(index, MASK_INDEX)
        generation == U64And(U64Shr32(index), MASK_GENERATION)
    IN  [generation |-> U32FromU64(generation), idx |-> idx]

InstanceStateEntry_new(gen, idx) == U64Or(U64Shl32(U64FromU32(gen)), idx)

\* opt is [tag |-> "None"] or [tag |-> "Some", gen, idx]
InstanceStateEntryOption_new(opt) ==
    IF opt.tag = "None"
    THEN <<0, 0, 0, 0>>
    ELSE U64Or(U64Or(U64Shl32(U64FromU32(opt.gen)), opt.idx), OPTION_TAG)

InstanceStateIterator_split(index) ==
    LET idx        == U64And(index, MASK_INDEX)
        generation == U64And(U64Shr32(index), MASK_GENERATION)
    IN  [generation |-> U32FromU64(generation), idx |-> idx]

InstanceStateIterator_new(gen, idx) == U64Or(U64Shl32(U64FromU32(gen)), idx)

InstanceStateIteratorOption_new(opt) ==
    IF opt.tag = "None"
    THEN <<0, 0, 0, 0>>
    ELSE U64Or(U64Or(U64Shl32(U64FromU32(opt.gen)), opt.idx), OPTION_TAG)

\* generations a handle is built from: 0, 1, 2^31 - 1, 2^31, 2^32 - 1
HandleGenerations == {U32(0), U32(1), <<65535, 32767>>, <<0, 32768>>, <<65535, 65535>>}

\* indices a handle is built from: 0, 1, 2^32 - 1, 2^32
HandleIndices == {Usize(0), Usize(1), <<65535, 65535, 0, 0>>, <<0, 0, 1, 0>>}

\* the v0 host does not run while handles are built
hostvars ==
    <<kind, imports, energy, logs, state, outcomes, param, memory, current_state, phase,
      lastOp, result>>

HostIdle ==
    /\ kind = "none"
    /\ imports = {}
    /\ energy = 0
    /\ logs = <<>>
    /\ state = <<>>
    /\ outcomes = <<>>
    /\ param = <<>>
    /\ memory = <<>>
    /\ current_state = <<>>
    /\ phase = "done"
    /\ lastOp = Op("none", 0, 0, "ok", "", 0, FALSE)
    /\ result = NoResult

HandleInit ==
    /\ HostIdle
    /\ handle_in \in {[tag |-> "None"]}
                       \cup [tag : {"Some"}, gen : HandleGenerations, idx : HandleIndices]
    /\ handle_out = NoHandle
    /\ StateIdle
    /\ ExtIdle

\* a handle of the given type, as the u64 the guest sees; flipped records
\* that the guest changed the top bit, split what split read back
Handle(type, index) ==
    [tag |-> "Handle", type |-> type, index |-> index, flipped |-> FALSE,
     split |-> [tag |-> "None"]]

EntryNew ==
    /\ handle_in.tag = "Some"
    /\ handle_out = NoHandle
    /\ handle_out' = Handle("InstanceStateEntry",
                            InstanceStateEntry_new(handle_in.gen, handle_in.idx))
    /\ UNCHANGED <<hostvars, svars, xvars, handle_in>>

EntryOptionNew ==
    /\ handle_out = NoHandle
    /\ handle_out' = Handle("InstanceStateEntryOption", InstanceStateEntryOption_new(handle_in))
    /\ UNCHANGED <<hostvars, svars, xvars, handle_in>>

IteratorNew ==
    /\ handle_in.tag = "Some"
    /\ handle_out = NoHandle
    /\ handle_out' = Handle("InstanceStateIterator",
                            InstanceStateIterator_new(handle_in.gen, handle_in.idx))
    /\ UNCHANGED <<hostvars, svars, xvars, handle_in>>

IteratorOptionNew ==
    /\ handle_out = NoHandle
    /\ handle_out' = Handle("InstanceStateIteratorOption",
                            InstanceStateIteratorOption_new(handle_in))
    /\ UNCHANGED <<hostvars, svars, xvars, handle_in>>

\* derive(From, Into): the guest receives the u64 of an option handle and
\* hands it back as an entry or iterator handle
HandleFromU64 ==
    /\ handle_out.tag = "Handle"
    /\ handle_out.type \in {"InstanceStateEntryOption", "InstanceStateIteratorOption"}
    /\ handle_out' =
         [handle_out EXCEPT !.type = IF handle_out.type = "InstanceStateEntryOption"
                                     THEN "InstanceStateEntry"
                                     ELSE "InstanceStateIterator"]
    /\ UNCHANGED <<hostvars, svars, xvars, handle_in>>

\* the guest sets or clears the top bit of the u64 before handing it back
HandleFlipTag ==
    /\ handle_out.tag = "Handle"
    /\ handle_out.type \in {"InstanceStateEntry", "InstanceStateIterator"}
    /\ handle_out.split.tag = "None"
    /\ ~handle_out.flipped
    /\ handle_out' =
         [handle_out EXCEPT
            !.index = IF U64And(handle_out.index, OPTION_TAG) = OPTION_TAG
                      THEN <<@[1], @[2], @[3], @[4] - 32768>>
                      ELSE U64Or(@, OPTION_TAG),
            !.flipped = TRUE]
    /\ UNCHANGED <<hostvars, svars, xvars, handle_in>>

EntrySplit ==
    /\ handle_out.tag = "Handle"
    /\ handle_out.type = "InstanceStateEntry"
    /\ handle_out.split.tag = "None"
    /\ handle_out' =
         [handle_out EXCEPT
            !.split = [tag |-> "Some", value |-> InstanceStateEntry_split(handle_out.index)]]
    /\ UNCHANGED <<hostvars, svars, xvars, handle_in>>

IteratorSplit ==
    /\ handle_out.tag = "Handle"
    /\ handle_out.type = "InstanceStateIterator"
    /\ handle_out.split.tag = "None"
    /\ handle_out' =
         [handle_out EXCEPT
            !.split = [tag |-> "Some", value |-> InstanceStateIterator_split(handle_out.index)]]
    /\ UNCHANGED <<hostvars, svars, xvars, handle_in>>

HandleNext ==
    \/ EntryNew
    \/ EntryOptionNew
    \/ IteratorNew
    \/ IteratorOptionNew
    \/ HandleFromU64
    \/ HandleFlipTag
    \/ EntrySplit
    \/ IteratorSplit

SpecHandle == HandleInit /\ [][HandleNext]_vars

(***************************************************************************)
(* The mutable state trie (v1::trie), as the instance state uses it:       *)
(* root is the set of (key, entry id) pairs, entries the value of each     *)
(* entry id (or that the entry is gone), locks the prefixes iterators      *)
(* hold.  Keys are byte sequences ordered lexicographically.               *)
(***************************************************************************)
\* largest number of slots in the entry mapping of one facade
MaxEntries == 2
\* largest number of iterators of one facade
MaxIterators == 1
\* largest number of re-entries after an interrupt
MaxResumes == 1
\* longest value of an entry
MaxValueLen == 1

IsPrefix(p, k) == Len(p) <= Len(k) /\ SubSeq(k, 1, Len(p)) = p

\* a < b in lexicographic order
LexLess(a, b) ==
    \/ Len(a) < Len(b) /\ IsPrefix(a, b)
    \/ \E i \in 1..Min(Len(a), Len(b)) :
          SubSeq(a, 1, i - 1) = SubSeq(b, 1, i - 1) /\ a[i] < b[i]

\* an entry id that resolves to no entry
NoEntryId == 0

Trie_new(pairs) ==
    [tag     |-> "Trie",
     root    |-> {[key |-> pairs[i][1], id |-> i] : i \in 1..Len(pairs)},
     entries |-> [i \in 1..Len(pairs) |-> [alive |-> TRUE, value |-> pairs[i][2]]],
     locks   |-> {}]

\* the trie as a key-value map
Trie_contents(t) == {[key |-> n.key, value |-> t.entries[n.id].value] : n \in t.root}

Trie_get_entry(t, key) ==
    IF \E n \in t.root : n.key = key
    THEN (CHOOSE n \in t.root : n.key = key).id
    ELSE NoEntryId

\* a lock on a node forbids structural change at the node and below it
Trie_is_locked(t, key) == \E p \in t.locks : IsPrefix(p, key)

\* insert sets the value at key; under a lock it is refused and changes
\* nothing.  The result is the (EntryId, bool) pair the facade destructures,
\* which has no form for a refusal: a refused insert of an absent key
\* carries an entry id that resolves to nothing.
Trie_insert_NoValue(t, key, value) ==
    LET id == Trie_get_entry(t, key)
    IN  IF Trie_is_locked(t, key)
        THEN [trie |-> t, id |-> id, existed |-> id # NoEntryId, refused |-> TRUE]
        ELSE IF id # NoEntryId
        THEN [trie |-> [t EXCEPT !.entries[id] = [alive |-> TRUE, value |-> <<>>]],
              id |-> id, existed |-> TRUE, refused |-> FALSE]
        ELSE LET new == Len(t.entries) + 1
             IN  [trie |-> [t EXCEPT !.root = @ \cup {[key |-> key, id |-> new]},
                                     !.entries = Append(@, [alive |-> TRUE, value |-> <<>>])],
                  id |-> new, existed |-> FALSE, refused |-> FALSE]

Trie_insert(t, key, value) ==
    LET id == Trie_get_entry(t, key)
    IN  IF Trie_is_locked(t, key)
        THEN [trie |-> t, id |-> id, existed |-> id # NoEntryId, refused |-> TRUE]
        ELSE IF id # NoEntryId
        THEN [trie |-> [t EXCEPT !.entries[id] = [alive |-> TRUE, value |-> value]],
              id |-> id, existed |-> TRUE, refused |-> FALSE]
        ELSE LET new == Len(t.entries) + 1
             IN  [trie |-> [t EXCEPT !.root = @ \cup {[key |-> key, id |-> new]},
                                     !.entries = Append(@, [alive |-> TRUE, value |-> value])],
                  id |-> new, existed |-> FALSE, refused |-> FALSE]

\* delete clears the value at key: None when the key is absent or locked
Trie_delete(t, key) ==
    LET id == Trie_get_entry(t, key)
    IN  IF Trie_is_locked(t, key) \/ id = NoEntryId
        THEN [trie |-> t, some |-> FALSE]
        ELSE [trie |-> [t EXCEPT !.root = @ \ {[key |-> key, id |-> id]},
                                !.entries[id] = [alive |-> FALSE, value |-> <<>>]],
              some |-> TRUE]

\* delete_prefix detaches the subtree under prefix: None when there is none
\* or when an iterator covers it or lies inside it
Trie_delete_prefix(t, prefix) ==
    LET under == {n \in t.root : IsPrefix(prefix, n.key)}
    IN  IF \/ \E p \in t.locks : IsPrefix(p, prefix) \/ IsPrefix(prefix, p)
           \/ under = {}
        THEN [trie |-> t, some |-> FALSE]
        ELSE [trie |-> [t EXCEPT !.root = @ \ under,
                                !.entries = [i \in 1..Len(@) |->
                                               IF \E n \in under : n.id = i
                                               THEN [alive |-> FALSE, value |-> <<>>]
                                               ELSE @[i]]],
              some |-> TRUE]

\* iter locates the subtree under prefix, None when no key has the prefix,
\* and locks it; the iterator holds the key it stands at
Trie_iter(t, prefix) ==
    IF \A n \in t.root : ~IsPrefix(prefix, n.key)
    THEN [trie |-> t, some |-> FALSE, iter |-> [prefix |-> prefix, started |-> FALSE, key |-> <<>>]]
    ELSE [trie |-> [t EXCEPT !.locks = @ \cup {prefix}], some |-> TRUE,
          iter |-> [prefix |-> prefix, started |-> FALSE, key |-> <<>>]]

\* next advances in order to the next key under the prefix
Trie_next(t, iter) ==
    LET rest == {n \in t.root : /\ IsPrefix(iter.prefix, n.key)
                                /\ iter.started => LexLess(iter.key, n.key)}
    IN  IF rest = {}
        THEN [some |-> FALSE, id |-> NoEntryId, iter |-> iter]
        ELSE LET n == CHOOSE n \in rest : \A m \in rest : m = n \/ LexLess(n.key, m.key)
             IN  [some |-> TRUE, id |-> n.id,
                  iter |-> [iter EXCEPT !.started = TRUE, !.key = n.key]]

Iterator_get_key(iter) == iter.key

\* with_entry / get_mut: the value of a live entry
Trie_with_entry(t, id) ==
    IF id \in 1..Len(t.entries) /\ t.entries[id].alive
    THEN [some |-> TRUE, value |-> t.entries[id].value]
    ELSE [some |-> FALSE, value |-> <<>>]

Trie_get_mut(t, id) == Trie_with_entry(t, id)

\* the write through the reference get_mut gave
Trie_set(t, id, value) == [t EXCEPT !.entries[id].value = value]

(***************************************************************************)
(* InstanceState (v1/types.rs): the facade a running contract sees.  self  *)
(* is the record of its fields; every operation gives the facade after the *)
(* call, whether it returned Ok or Err (res, with the message), the value  *)
(* returned (ret) and the bytes copied out (data).                         *)
(***************************************************************************)
SomeEntry(id, key) == [tag |-> "Some", id |-> id, key |-> key]

NoneEntry == [tag |-> "None"]

StateOk(self, ret, data) == [self |-> self, res |-> "ok", msg |-> "", ret |-> ret, data |-> data]

StateErr(self, msg) == [self |-> self, res |-> "err", msg |-> msg, ret |-> <<>>, data |-> <<>>]

\* Vec::get with a usize index
VecGet(v, idx) ==
    IF idx[3] = 0 /\ idx[4] = 0 /\ idx[1] + 65536 * idx[2] < Len(v)
    THEN [tag |-> "Some", at |-> idx[1] + 65536 * idx[2] + 1]
    ELSE [tag |-> "None"]

\* entry_mapping.get(idx).and_then(Option::as_ref)
MappingGet(self, idx) ==
    LET slot == VecGet(self.entry_mapping, idx)
    IN  IF slot.tag = "Some" THEN self.entry_mapping[slot.at] ELSE NoneEntry

InstanceState_new(generation, trie) ==
    [current_generation |-> generation,
     entry_mapping      |-> <<>>,
     iterators          |-> <<>>,
     state_trie         |-> trie]

InstanceState_lookup_entry(self, key) ==
    LET id == Trie_get_entry(self.state_trie, key)
    IN  IF id # NoEntryId
        THEN LET idx == Len(self.entry_mapping)
             IN  StateOk([self EXCEPT !.entry_mapping = Append(@, SomeEntry(id, key))],
                         InstanceStateEntryOption_new(
                             [tag |-> "Some", gen |-> self.current_generation, idx |-> Usize(idx)]),
                         <<>>)
        ELSE StateOk(self, InstanceStateEntryOption_new([tag |-> "None"]), <<>>)

\* mutant: the new entry is put in front of the mapping, which renumbers
\* the slots issued before
InstanceState_create_entry_Front(self, key) ==
    LET ins == Trie_insert(self.state_trie, key, <<>>)
    IN  StateOk([self EXCEPT !.state_trie = ins.trie,
                             !.entry_mapping = <<SomeEntry(ins.id, key)>> \o @],
                InstanceStateEntry_new(self.current_generation, Usize(0)),
                <<>>)

InstanceState_create_entry(self, key) ==
    LET ins == Trie_insert(self.state_trie, key, <<>>)
        idx == Len(self.entry_mapping)
    IN  StateOk([self EXCEPT !.state_trie = ins.trie,
                             !.entry_mapping = Append(@, SomeEntry(ins.id, key))],
                InstanceStateEntry_new(self.current_generation, Usize(idx)),
                <<>>)

InstanceState_delete_entry_NoGeneration(self, entry) ==
    LET sp   == InstanceStateEntry_split(entry)
        slot == VecGet(self.entry_mapping, sp.idx)
    IN  IF slot.tag = "Some" /\ self.entry_mapping[slot.at].tag = "Some"
        THEN LET e   == self.entry_mapping[slot.at]
                 del == Trie_delete(self.state_trie, e.key)
             IN  StateOk([self EXCEPT !.entry_mapping[slot.at] = NoneEntry,
                                      !.state_trie = del.trie],
                         IF del.some THEN 1 ELSE 0, <<>>)
        ELSE StateOk(self, 0, <<>>)

InstanceState_delete_entry(self, entry) ==
    LET sp   == InstanceStateEntry_split(entry)
        slot == VecGet(self.entry_mapping, sp.idx)
    IN  IF sp.generation # self.current_generation
        THEN StateErr(self, "Incorrect entry id generation.")
        ELSE IF slot.tag = "Some" /\ self.entry_mapping[slot.at].tag = "Some"
        THEN LET e   == self.entry_mapping[slot.at]
                 del == Trie_delete(self.state_trie, e.key)
             IN  StateOk([self EXCEPT !.entry_mapping[slot.at] = NoneEntry,
                                      !.state_trie = del.trie],
                         IF del.some THEN 1 ELSE 0, <<>>)
        ELSE StateOk(self, 0, <<>>)

InstanceState_delete_prefix(self, key) ==
    LET del == Trie_delete_prefix(self.state_trie, key)
    IN  StateOk([self EXCEPT !.state_trie = del.trie], IF del.some THEN 1 ELSE 0, <<>>)

InstanceState_iterator(self, prefix) ==
    LET it == Trie_iter(self.state_trie, prefix)
    IN  IF it.some
        THEN LET iter_id == Len(self.iterators)
             IN  StateOk([self EXCEPT !.state_trie = it.trie,
                                      !.iterators = Append(@, it.iter)],
                         InstanceStateIteratorOption_new(
                             [tag |-> "Some", gen |-> self.current_generation,
                              idx |-> Usize(iter_id)]),
                         <<>>)
        ELSE StateOk(self, InstanceStateIteratorOption_new([tag |-> "None"]), <<>>)

InstanceState_iterator_next_NoKey(self, iter) ==
    LET sp   == InstanceStateIterator_split(iter)
        slot == VecGet(self.iterators, sp.idx)
    IN  IF sp.generation # self.current_generation
        THEN StateErr(self, "Incorrect iterator generation.")
        ELSE IF slot.tag = "Some"
        THEN LET nx == Trie_next(self.state_trie, self.iterators[slot.at])
             IN  IF nx.some
                 THEN LET idx == Len(self.entry_mapping)
                      IN  StateOk([self EXCEPT
                                     !.iterators[slot.at] = nx.iter,
                                     !.entry_mapping =
                                         Append(@, SomeEntry(nx.id, self.iterators[slot.at].prefix))],
                                  InstanceStateEntryOption_new(
                                      [tag |-> "Some", gen |-> self.current_generation,
                                       idx |-> Usize(idx)]),
                                  <<>>)
                 ELSE StateOk(self, InstanceStateEntryOption_new([tag |-> "None"]), <<>>)
        ELSE StateErr(self, "Invalid iterator.")

InstanceState_iterator_next(self, iter) ==
    LET sp   == InstanceStateIterator_split(iter)
        slot == VecGet(self.iterators, sp.idx)
    IN  IF sp.generation # self.current_generation
        THEN StateErr(self, "Incorrect iterator generation.")
        ELSE IF slot.tag = "Some"
        THEN LET nx == Trie_next(self.state_trie, self.iterators[slot.at])
             IN  IF nx.some
                 THEN LET idx == Len(self.entry_mapping)
                      IN  StateOk([self EXCEPT
                                     !.iterators[slot.at] = nx.iter,
                                     !.entry_mapping =
                                         Append(@, SomeEntry(nx.id, Iterator_get_key(nx.iter)))],
                                  InstanceStateEntryOption_new(
                                      [tag |-> "Some", gen |-> self.current_generation,
                                       idx |-> Usize(idx)]),
                                  <<>>)
                 ELSE StateOk(self, InstanceStateEntryOption_new([tag |-> "None"]), <<>>)
        ELSE StateErr(self, "Invalid iterator.")

InstanceState_entry_read_FromStart(self, entry, dest_len, offset) ==
    LET sp == InstanceStateEntry_split(entry)
        e  == MappingGet(self, sp.idx)
    IN  IF sp.generation # self.current_generation
        THEN StateErr(self, "Incorrect entry id generation.")
        ELSE IF e.tag = "Some"
        THEN LET v == Trie_with_entry(self.state_trie, e.id)
             IN  IF ~v.some THEN StateErr(self, "Entry does not exist.")
                 ELSE IF offset > Len(v.value) THEN StateErr(self, "Offset is past end.")
                 ELSE LET num_copied == Min(Len(v.value) - offset, dest_len)
                      IN  StateOk(self, num_copied, Slice(v.value, 0, num_copied))
        ELSE StateErr(self, "Invalid entry.")

\* dest is a buffer of dest_len bytes; data is what is copied to its front
InstanceState_entry_read(self, entry, dest_len, offset) ==
    LET sp == InstanceStateEntry_split(entry)
        e  == MappingGet(self, sp.idx)
    IN  IF sp.generation # self.current_generation
        THEN StateErr(self, "Incorrect entry id generation.")
        ELSE IF e.tag = "Some"
        THEN LET v == Trie_with_entry(self.state_trie, e.id)
             IN  IF ~v.some THEN StateErr(self, "Entry does not exist.")
                 ELSE IF offset > Len(v.value) THEN StateErr(self, "Offset is past end.")
                 ELSE LET num_copied == Min(Len(v.value) - offset, dest_len)
                      IN  StateOk(self, num_copied, Slice(v.value, offset, offset + num_copied))
        ELSE StateErr(self, "Invalid entry.")

InstanceState_entry_write_Truncate(self, entry, src, offset) ==
    LET sp == InstanceStateEntry_split(entry)
        e  == MappingGet(self, sp.idx)
    IN  IF sp.generation # self.current_generation
        THEN StateErr(self, "Incorrect entry id generation.")
        ELSE IF e.tag = "Some"
        THEN LET v == Trie_get_mut(self.state_trie, e.id)
             IN  IF ~v.some THEN StateErr(self, "Entry does not exist.")
                 ELSE IF ~(offset <= Len(v.value)) THEN StateErr(self, "Cannot write past the len.")
                 ELSE LET end     == offset + Len(src)
                          resized == VecResize(v.value, end)
                          written == [i \in 1..Len(resized) |->
                                        IF offset < i /\ i <= end THEN src[i - offset] ELSE resized[i]]
                      IN  StateOk([self EXCEPT !.state_trie = Trie_set(@, e.id, written)],
                                  Len(src), <<>>)
        ELSE StateErr(self, "Invalid entry.")

InstanceState_entry_write(self, entry, src, offset) ==
    LET sp == InstanceStateEntry_split(entry)
        e  == MappingGet(self, sp.idx)
    IN  IF sp.generation # self.current_generation
        THEN StateErr(self, "Incorrect entry id generation.")
        ELSE IF e.tag = "Some"
        THEN LET v == Trie_get_mut(self.state_trie, e.id)
             IN  IF ~v.some THEN StateErr(self, "Entry does not exist.")
                 ELSE IF ~(offset <= Len(v.value)) THEN StateErr(self, "Cannot write past the len.")
                 ELSE LET end     == offset + Len(src)
                          resized == IF Len(v.value) < end THEN VecResize(v.value, end) ELSE v.value
                          written == [i \in 1..Len(resized) |->
                                        IF offset < i /\ i <= end THEN src[i - offset] ELSE resized[i]]
                      IN  StateOk([self EXCEPT !.state_trie = Trie_set(@, e.id, written)],
                                  Len(src), <<>>)
        ELSE StateErr(self, "Invalid entry.")

InstanceState_entry_size(self, entry) ==
    LET sp == InstanceStateEntry_split(entry)
        e  == MappingGet(self, sp.idx)
    IN  IF sp.generation # self.current_generation
        THEN StateErr(self, "Incorrect entry id generation.")
        ELSE IF e.tag = "Some"
        THEN LET v == Trie_with_entry(self.state_trie, e.id)
             IN  IF v.some THEN StateOk(self, Len(v.value), <<>>)
                 ELSE StateErr(self, "Entry does not exist.")
        ELSE StateErr(self, "Invalid entry.")

InstanceState_entry_resize(self, entry, new_size) ==
    LET sp == InstanceStateEntry_split(entry)
        e  == MappingGet(self, sp.idx)
    IN  IF sp.generation # self.current_generation
        THEN StateErr(self, "Incorrect entry id generation.")
        ELSE IF e.tag = "Some"
        THEN LET v == Trie_get_mut(self.state_trie, e.id)
             IN  IF v.some
                 THEN StateOk([self EXCEPT !.state_trie =
                                  Trie_set(@, e.id, VecResize(v.value, new_size))], 1, <<>>)
                 ELSE StateErr(self, "Entry does not exist.")
        ELSE StateErr(self, "Invalid entry.")

InstanceState_entry_key_read(self, entry, dest_len, offset) ==
    LET sp == InstanceStateEntry_split(entry)
        e  == MappingGet(self, sp.idx)
    IN  IF sp.generation # self.current_generation
        THEN StateErr(self, "Incorrect entry id generation.")
        ELSE IF e.tag = "Some"
        THEN IF offset > Len(e.key) THEN StateErr(self, "Offset is past key.")
             ELSE LET num_copied == Min(Len(e.key) - offset, dest_len)
                  IN  StateOk(self, num_copied, Slice(e.key, offset, offset + num_copied))
        ELSE StateErr(self, "Invalid entry id.")

\* mutant: the key is served only while the entry is in the trie
InstanceState_entry_key_size_Live(self, entry) ==
    LET sp == InstanceStateEntry_split(entry)
        e  == MappingGet(self, sp.idx)
    IN  IF sp.generation # self.current_generation
        THEN StateErr(self, "Incorrect entry id generation.")
        ELSE IF e.tag = "Some" /\ Trie_with_entry(self.state_trie, e.id).some
        THEN StateOk(self, Len(e.key), <<>>)
        ELSE StateErr(self, "Invalid entry ID.")

InstanceState_entry_key_size(self, entry) ==
    LET sp == InstanceStateEntry_split(entry)
        e  == MappingGet(self, sp.idx)
    IN  IF sp.generation # self.current_generation
        THEN StateErr(self, "Incorrect entry id generation.")
        ELSE IF e.tag = "Some"
        THEN StateOk(self, Len(e.key), <<>>)
        ELSE StateErr(self, "Invalid entry ID.")

(***************************************************************************)
(* The facade in use: a contract calls the operations in any order, on     *)
(* keys, prefixes and handles of its choice, and may be interrupted and    *)
(* resumed, which gives it a new facade over the same trie.                *)
(***************************************************************************)
StateKeys == {<<1>>, <<1, 1>>, <<2>>}

Prefixes == {<<>>, <<1>>, <<3>>}

WriteSrcs == {<<5>>}

\* offsets into a value or a key: its start, inside it, past its end
StateOffsets == {0, MaxValueLen, MaxValueLen + 1}

DestLens == {MaxValueLen}

InitGenerations == {U32(0)}

InitTries ==
    {Trie_new(<<>>),
     Trie_new(<< <<(<<1>>), (<<7>>)>>, <<(<<1, 1>>), (<<>>)>>, <<(<<2>>), (<<>>)>> >>)}

\* the operations one contract calls
StateFamilies ==
    {{"lookup_entry", "delete_entry", "entry_read", "entry_size", "entry_key_read",
      "entry_key_size", "resume"},
     {"lookup_entry", "delete_entry", "entry_write", "entry_resize"},
     {"iterator", "iterator_next", "delete_prefix", "resume"},
     {"iterator", "create_entry", "delete_entry"},
     {"lookup_entry", "delete_prefix", "entry_size", "entry_key_read", "entry_key_size"}}

\* wrapping increment of a u32
U32Inc(g) == IF g[1] < 65535 THEN <<g[1] + 1, g[2]>> ELSE <<0, (g[2] + 1) % 65536>>

Self ==
    [current_generation |-> current_generation,
     entry_mapping      |-> entry_mapping,
     iterators          |-> iterators,
     state_trie         |-> state_trie]

NoArgs == [handle |-> <<>>, key |-> <<>>, offset |-> 0, len |-> 0, src |-> <<>>]

\* the handles a contract can pass: those it was given, in this facade or
\* before an interrupt, one past the end of the mapping, and one it made up
\* with another generation
EntryHandles ==
    {h.handle : h \in {i \in issued : i.kind = "entry"}}
        \cup {InstanceStateEntry_new(current_generation, Usize(Len(entry_mapping))),
              InstanceStateEntry_new(U32Inc(current_generation), Usize(0))}

IteratorHandles ==
    {h.handle : h \in {i \in issued : i.kind = "iterator"}}
        \cup {InstanceStateIterator_new(current_generation, Usize(Len(iterators))),
              InstanceStateIterator_new(U32Inc(current_generation), Usize(0))}

IsSomeHandle(ret) == ret # <<0, 0, 0, 0>>

StateInit ==
    /\ HostIdle
    /\ ExtIdle
    /\ handle_in = NoHandle
    /\ handle_out = NoHandle
    /\ state_imports \in StateFamilies
    /\ \E g \in InitGenerations, t \in InitTries :
          /\ current_generation = InstanceState_new(g, t).current_generation
          /\ entry_mapping = InstanceState_new(g, t).entry_mapping
          /\ iterators = InstanceState_new(g, t).iterators
          /\ state_trie = InstanceState_new(g, t).state_trie
    /\ resumes = 0
    /\ issued = {}
    /\ yielded = <<>>
    /\ lastCall = [op |-> "none"]

\* the facade after a call that gave r, and what the contract learnt
StateCall(op, args, r, handles, y) ==
    /\ Len(r.self.entry_mapping) <= MaxEntries
    /\ Len(r.self.iterators) <= MaxIterators
    /\ current_generation' = r.self.current_generation
    /\ entry_mapping' = r.self.entry_mapping
    /\ iterators' = r.self.iterators
    /\ state_trie' = r.self.state_trie
    /\ issued' = issued \cup handles
    /\ yielded' = y
    /\ lastCall' = [op |-> op, args |-> args,
                    res |-> r.res, msg |-> r.msg, ret |-> r.ret, data |-> r.data]
    /\ UNCHANGED <<hostvars, hvars, xvars, state_imports, resumes>>

Issue(type, ret) ==
    IF IsSomeHandle(ret)
    THEN {[kind |-> type, handle |-> ret, gen |-> current_generation]}
    ELSE {}

LookupEntry ==
    /\ "lookup_entry" \in state_imports
    /\ \E key \in StateKeys :
         LET r == InstanceState_lookup_entry(Self, key)
         IN  StateCall("lookup_entry", [NoArgs EXCEPT !.key = key], r,
                       Issue("entry", r.ret), yielded)

\* create_entry returns an InstanceStateEntry, not an option: the value it
\* returns is a handle whatever its bits, 0 included
CreateEntry ==
    /\ "create_entry" \in state_imports
    /\ \E key \in StateKeys :
         LET r == InstanceState_create_entry(Self, key)
         IN  StateCall("create_entry", [NoArgs EXCEPT !.key = key], r,
                       {[kind |-> "entry", handle |-> r.ret, gen |-> current_generation]},
                       yielded)

DeleteEntry ==
    /\ "delete_entry" \in state_imports
    /\ \E entry \in EntryHandles :
         LET r == InstanceState_delete_entry(Self, entry)
         IN  StateCall("delete_entry", [NoArgs EXCEPT !.handle = entry], r, {}, yielded)

DeletePrefix ==
    /\ "delete_prefix" \in state_imports
    /\ \E key \in Prefixes :
         LET r == InstanceState_delete_prefix(Self, key)
         IN  StateCall("delete_prefix", [NoArgs EXCEPT !.key = key], r, {}, yielded)

Iterator ==
    /\ "iterator" \in state_imports
    /\ \E prefix \in Prefixes :
         LET r == InstanceState_iterator(Self, prefix)
         IN  StateCall("iterator", [NoArgs EXCEPT !.key = prefix], r,
                       Issue("iterator", r.ret),
                       IF IsSomeHandle(r.ret)
                       THEN Append(yielded, [keys |-> <<>>, done |-> FALSE])
                       ELSE yielded)

IteratorNext ==
    /\ "iterator_next" \in state_imports
    /\ \E iter \in IteratorHandles :
         LET r  == InstanceState_iterator_next(Self, iter)
             at == VecGet(iterators, InstanceStateIterator_split(iter).idx)
         IN  StateCall("iterator_next", [NoArgs EXCEPT !.handle = iter], r,
                       IF r.res = "ok" THEN Issue("entry", r.ret) ELSE {},
                       IF r.res = "err" THEN yielded
                       ELSE IF IsSomeHandle(r.ret)
                       THEN [yielded EXCEPT ![at.at].keys =
                               Append(@, r.self.entry_mapping[Len(r.self.entry_mapping)].key)]
                       ELSE [yielded EXCEPT ![at.at].done = TRUE])

EntryRead ==
    /\ "entry_read" \in state_imports
    /\ \E entry \in EntryHandles, dest_len \in DestLens, offset \in StateOffsets :
         LET r == InstanceState_entry_read(Self, entry, dest_len, offset)
         IN  StateCall("entry_read",
                       [NoArgs EXCEPT !.handle = entry, !.len = dest_len, !.offset = offset],
                       r, {}, yielded)

EntryWrite ==
    /\ "entry_write" \in state_imports
    /\ \E entry \in EntryHandles, src \in WriteSrcs, offset \in StateOffsets :
         LET r == InstanceState_entry_write(Self, entry, src, offset)
         IN  /\ r.res = "ok" => offset + Len(src) <= MaxValueLen
             /\ StateCall("entry_write",
                          [NoArgs EXCEPT !.handle = entry, !.src = src, !.offset = offset],
                          r, {}, yielded)

EntrySize ==
    /\ "entry_size" \in state_imports
    /\ \E entry \in EntryHandles :
         LET r == InstanceState_entry_size(Self, entry)
         IN  StateCall("entry_size", [NoArgs EXCEPT !.handle = entry], r, {}, yielded)

EntryResize ==
    /\ "entry_resize" \in state_imports
    /\ \E entry \in EntryHandles, new_size \in 0..MaxValueLen :
         LET r == InstanceState_entry_resize(Self, entry, new_size)
         IN  StateCall("entry_resize", [NoArgs EXCEPT !.handle = entry, !.len = new_size],
                       r, {}, yielded)

EntryKeyRead ==
    /\ "entry_key_read" \in state_imports
    /\ \E entry \in EntryHandles, dest_len \in DestLens, offset \in StateOffsets :
         LET r == InstanceState_entry_key_read(Self, entry, dest_len, offset)
         IN  StateCall("entry_key_read",
                       [NoArgs EXCEPT !.handle = entry, !.len = dest_len, !.offset = offset],
                       r, {}, yielded)

EntryKeySize ==
    /\ "entry_key_size" \in state_imports
    /\ \E entry \in EntryHandles :
         LET r == InstanceState_entry_key_size(Self, entry)
         IN  StateCall("entry_key_size", [NoArgs EXCEPT !.handle = entry], r, {}, yielded)

\* the contract is interrupted and control re-enters it: a new facade over
\* the same trie, its generation one more than before
Resume ==
    /\ "resume" \in state_imports
    /\ resumes < MaxResumes
    /\ resumes' = resumes + 1
    /\ current_generation' = InstanceState_new(U32Inc(current_generation), state_trie).current_generation
    /\ entry_mapping' = InstanceState_new(U32Inc(current_generation), state_trie).entry_mapping
    /\ iterators' = InstanceState_new(U32Inc(current_generation), state_trie).iterators
    /\ state_trie' = InstanceState_new(U32Inc(current_generation), state_trie).state_trie
    /\ yielded' = <<>>
    /\ lastCall' = [op |-> "resume"]
    /\ UNCHANGED <<hostvars, hvars, xvars, state_imports, issued>>

StateNext ==
    \/ LookupEntry
    \/ CreateEntry
    \/ DeleteEntry
    \/ DeletePrefix
    \/ Iterator
    \/ IteratorNext
    \/ EntryRead
    \/ EntryWrite
    \/ EntrySize
    \/ EntryResize
    \/ EntryKeyRead
    \/ EntryKeySize
    \/ Resume

SpecState == StateInit /\ [][StateNext]_vars

\* a facade constructed with a generation whose top bit is set: 2^31
HighGenerations == {<<0, 32768>>}

GenerationInit ==
    /\ HostIdle
    /\ ExtIdle
    /\ handle_in = NoHandle
    /\ handle_out = NoHandle
    /\ state_imports \in StateFamilies
    /\ \E g \in HighGenerations, t \in InitTries :
          /\ current_generation = InstanceState_new(g, t).current_generation
          /\ entry_mapping = InstanceState_new(g, t).entry_mapping
          /\ iterators = InstanceState_new(g, t).iterators
          /\ state_trie = InstanceState_new(g, t).state_trie
    /\ resumes = 0
    /\ issued = {}
    /\ yielded = <<>>
    /\ lastCall = [op |-> "none"]

SpecGeneration == GenerationInit /\ [][StateNext]_vars

(***************************************************************************)
(* Reads and writes of one live entry: the contract looked the entry up    *)
(* and reads and writes its value at offsets before, at and past its end.  *)
(***************************************************************************)
\* longest value of the entry that is read and written
MaxEntryLen == 3

EntryValues == {<<>>, <<7>>, <<7, 8>>, <<7, 8, 9>>}

EntrySrcs == {<<>>, <<5>>, <<5, 6>>}

\* the facade after lookup_entry of the one key of the trie
EntryInit ==
    /\ HostIdle
    /\ ExtIdle
    /\ handle_in = NoHandle
    /\ handle_out = NoHandle
    /\ state_imports = {"entry_read", "entry_write"}
    /\ \E value \in EntryValues :
         LET r == InstanceState_lookup_entry(
                      InstanceState_new(U32(0), Trie_new(<< <<(<<1>>), value>> >>)), <<1>>)
         IN  /\ current_generation = r.self.current_generation
             /\ entry_mapping = r.self.entry_mapping
             /\ iterators = r.self.iterators
             /\ state_trie = r.self.state_trie
             /\ issued = {[kind |-> "entry", handle |-> r.ret, gen |-> r.self.current_generation]}
    /\ resumes = 0
    /\ yielded = <<>>
    /\ lastCall = [op |-> "none"]

ReadEntry ==
    /\ "entry_read" \in state_imports
    /\ \E i \in issued, dest_len \in 0..MaxEntryLen, offset \in 0..(MaxEntryLen + 1) :
         LET r == InstanceState_entry_read(Self, i.handle, dest_len, offset)
         IN  StateCall("entry_read",
                       [NoArgs EXCEPT !.handle = i.handle, !.len = dest_len, !.offset = offset],
                       r, {}, yielded)

WriteEntry ==
    /\ "entry_write" \in state_imports
    /\ \E i \in issued, src \in EntrySrcs, offset \in 0..(MaxEntryLen + 1) :
         LET r == InstanceState_entry_write(Self, i.handle, src, offset)
         IN  /\ r.res = "ok" => offset + Len(src) <= MaxEntryLen
             /\ StateCall("entry_write",
                          [NoArgs EXCEPT !.handle = i.handle, !.src = src, !.offset = offset],
                          r, {}, yielded)

EntryNext ==
    \/ ReadEntry
    \/ WriteEntry

SpecEntry == EntryInit /\ [][EntryNext]_vars

(***************************************************************************)
(* Validation and serialization (types.rs, v1/types.rs): functions of      *)
(* their arguments.  input holds the function and its arguments, output    *)
(* what it returned.  A function type is its parameter list and its        *)
(* result ("None" when it has none); names are strings or, where their     *)
(* characters matter, sequences of bytes.                                  *)
(***************************************************************************)
FunctionType(parameters, res) == [parameters |-> parameters, result |-> res]

\* the three forms of the type_matches! macro
type_matches(goal, parameters, res) == goal.result = res /\ parameters = goal.parameters

validate_import_function_AnyModule(duplicate, mod_name, item_name, ty) ==
    IF duplicate THEN FALSE
    ELSE IF mod_name \in {"concordium", "env"}
    THEN
             CASE item_name = "accept" -> type_matches(ty, <<>>, "I32")
               [] item_name = "simple_transfer" -> type_matches(ty, <<"I32", "I64">>, "I32")
               [] item_name = "send" -> type_matches(ty, <<"I64", "I64", "I32", "I32", "I64", "I32", "I32">>, "I32")
               [] item_name = "combine_and" -> type_matches(ty, <<"I32", "I32">>, "I32")
               [] item_name = "combine_or" -> type_matches(ty, <<"I32", "I32">>, "I32")
               [] item_name = "get_parameter_size" -> type_matches(ty, <<>>, "I32")
               [] item_name = "get_parameter_section" -> type_matches(ty, <<"I32", "I32", "I32">>, "I32")
               [] item_name = "log_event" -> type_matches(ty, <<"I32", "I32">>, "None")
               [] item_name = "load_state" -> type_matches(ty, <<"I32", "I32", "I32">>, "I32")
               [] item_name = "write_state" -> type_matches(ty, <<"I32", "I32", "I32">>, "I32")
               [] item_name = "resize_state" -> type_matches(ty, <<"I32">>, "I32")
               [] item_name = "state_size" -> type_matches(ty, <<>>, "I32")
               [] item_name = "get_init_origin" -> type_matches(ty, <<"I32">>, "None")
               [] item_name = "get_receive_invoker" -> type_matches(ty, <<"I32">>, "None")
               [] item_name = "get_receive_self_address" -> type_matches(ty, <<"I32">>, "None")
               [] item_name = "get_receive_self_balance" -> type_matches(ty, <<>>, "I64")
               [] item_name = "get_receive_sender" -> type_matches(ty, <<"I32">>, "None")
               [] item_name = "get_receive_owner" -> type_matches(ty, <<"I32">>, "None")
               [] item_name = "get_slot_number" -> type_matches(ty, <<>>, "I64")
               [] item_name = "get_block_height" -> type_matches(ty, <<>>, "I64")
               [] item_name = "get_finalized_height" -> type_matches(ty, <<>>, "I64")
               [] item_name = "get_slot_time" -> type_matches(ty, <<>>, "I64")
               [] OTHER -> FALSE
    ELSE FALSE

\* v0: types.rs
validate_import_function(duplicate, mod_name, item_name, ty) ==
    IF duplicate THEN FALSE
    ELSE IF mod_name = "concordium"
    THEN
             CASE item_name = "accept" -> type_matches(ty, <<>>, "I32")
               [] item_name = "simple_transfer" -> type_matches(ty, <<"I32", "I64">>, "I32")
               [] item_name = "send" -> type_matches(ty, <<"I64", "I64", "I32", "I32", "I64", "I32", "I32">>, "I32")
               [] item_name = "combine_and" -> type_matches(ty, <<"I32", "I32">>, "I32")
               [] item_name = "combine_or" -> type_matches(ty, <<"I32", "I32">>, "I32")
               [] item_name = "get_parameter_size" -> type_matches(ty, <<>>, "I32")
               [] item_name = "get_parameter_section" -> type_matches(ty, <<"I32", "I32", "I32">>, "I32")
               [] item_name = "log_event" -> type_matches(ty, <<"I32", "I32">>, "None")
               [] item_name = "load_state" -> type_matches(ty, <<"I32", "I32", "I32">>, "I32")
               [] item_name = "write_state" -> type_matches(ty, <<"I32", "I32", "I32">>, "I32")
               [] item_name = "resize_state" -> type_matches(ty, <<"I32">>, "I32")
               [] item_name = "state_size" -> type_matches(ty, <<>>, "I32")
               [] item_name = "get_init_origin" -> type_matches(ty, <<"I32">>, "None")
               [] item_name = "get_receive_invoker" -> type_matches(ty, <<"I32">>, "None")
               [] item_name = "get_receive_self_address" -> type_matches(ty, <<"I32">>, "None")
               [] item_name = "get_receive_self_balance" -> type_matches(ty, <<>>, "I64")
               [] item_name = "get_receive_sender" -> type_matches(ty, <<"I32">>, "None")
               [] item_name = "get_receive_owner" -> type_matches(ty, <<"I32">>, "None")
               [] item_name = "get_slot_number" -> type_matches(ty, <<>>, "I64")
               [] item_name = "get_block_height" -> type_matches(ty, <<>>, "I64")
               [] item_name = "get_finalized_height" -> type_matches(ty, <<>>, "I64")
               [] item_name = "get_slot_time" -> type_matches(ty, <<>>, "I64")
               [] OTHER -> FALSE
    ELSE FALSE

\* v1: v1/types.rs
v1_validate_import_function(duplicate, mod_name, item_name, ty) ==
    IF duplicate THEN FALSE
    ELSE IF mod_name = "concordium"
    THEN
             CASE item_name = "invoke" -> type_matches(ty, <<"I32", "I32", "I32">>, "I64")
               [] item_name = "write_output" -> type_matches(ty, <<"I32", "I32", "I32">>, "I32")
               [] item_name = "get_parameter_size" -> type_matches(ty, <<"I32">>, "I32")
               [] item_name = "get_parameter_section" -> type_matches(ty, <<"I32", "I32", "I32", "I32">>, "I32")
               [] item_name = "get_policy_section" -> type_matches(ty, <<"I32", "I32", "I32">>, "I32")
               [] item_name = "log_event" -> type_matches(ty, <<"I32", "I32">>, "I32")
               [] item_name = "get_init_origin" -> type_matches(ty, <<"I32">>, "None")
               [] item_name = "get_receive_invoker" -> type_matches(ty, <<"I32">>, "None")
               [] item_name = "get_receive_self_address" -> type_matches(ty, <<"I32">>, "None")
               [] item_name = "get_receive_self_balance" -> type_matches(ty, <<>>, "I64")
               [] item_name = "get_receive_sender" -> type_matches(ty, <<"I32">>, "None")
               [] item_name = "get_receive_owner" -> type_matches(ty, <<"I32">>, "None")
               [] item_name = "get_slot_time" -> type_matches(ty, <<>>, "I64")
               [] item_name = "state_lookup_entry" -> type_matches(ty, <<"I32", "I32">>, "I64")
               [] item_name = "state_create_entry" -> type_matches(ty, <<"I32", "I32">>, "I64")
               [] item_name = "state_delete_entry" -> type_matches(ty, <<"I64">>, "I32")
               [] item_name = "state_delete_prefix" -> type_matches(ty, <<"I32", "I32">>, "I32")
               [] item_name = "state_iterate_prefix" -> type_matches(ty, <<"I32", "I32">>, "I32")
               [] item_name = "state_iterator_next" -> type_matches(ty, <<"I32">>, "I64")
               [] item_name = "state_entry_read" -> type_matches(ty, <<"I64", "I32", "I32", "I32">>, "I32")
               [] item_name = "state_entry_write" -> type_matches(ty, <<"I64", "I32", "I32", "I32">>, "I32")
               [] item_name = "state_entry_size" -> type_matches(ty, <<"I64">>, "I32")
               [] item_name = "state_entry_resize" -> type_matches(ty, <<"I64", "I32">>, "I32")
               [] item_name = "state_entry_key_read" -> type_matches(ty, <<"I64", "I32", "I32", "I32">>, "I32")
               [] item_name = "state_entry_key_size" -> type_matches(ty, <<"I64">>, "I32")
               [] OTHER -> FALSE
    ELSE FALSE

\* the length limit of an export name, str::starts_with("init_") and
\* str::contains('.') on the bytes of a name
MAX_EXPORT_NAME_LEN == 100

starts_with_init(name) == Len(name) >= 5 /\ SubSeq(name, 1, 5) = <<105, 110, 105, 116, 95>>

contains_dot(name) == \E i \in 1..Len(name) : name[i] = 46

\* v0: types.rs
validate_export_function(item_name, ty) ==
    LET valid_name   == /\ Len(item_name) <= MAX_EXPORT_NAME_LEN
                        /\ \A i \in 1..Len(item_name) : IsAlnumOrPunct(item_name[i])
        correct_type == ty.parameters = <<"I64">> /\ ty.result = "I32"
    IN  /\ valid_name
        /\ correct_type
        /\ IF starts_with_init(item_name)
           THEN ~contains_dot(item_name)
           ELSE contains_dot(item_name)

\* v1: v1/types.rs
v1_validate_export_function(item_name, ty) ==
    LET valid_name == /\ Len(item_name) <= MAX_EXPORT_NAME_LEN
                      /\ \A i \in 1..Len(item_name) : IsAlnumOrPunct(item_name[i])
        either_init_or_receive_name ==
            IF starts_with_init(item_name)
            THEN ~contains_dot(item_name)
            ELSE contains_dot(item_name)
    IN  IF ~valid_name THEN FALSE
        ELSE IF either_init_or_receive_name
        THEN ty.parameters = <<"I64">> /\ ty.result = "I32"
        ELSE TRUE

\* lib.rs: the names of the function exports that pass the filter, in order
get_inits(exports) ==
    LET keep(export) == /\ starts_with_init(export.name)
                        /\ ~contains_dot(export.name)
                        /\ export.description = "Func"
        kept == SelectSeq(exports, keep)
    IN  [i \in 1..Len(kept) |-> kept[i].name]

get_receives_NoFilter(exports) ==
    LET keep(export) == export.description = "Func"
        kept == SelectSeq(exports, keep)
    IN  [i \in 1..Len(kept) |-> kept[i].name]

get_receives(exports) ==
    LET keep(export) == contains_dot(export.name) /\ export.description = "Func"
        kept == SelectSeq(exports, keep)
    IN  [i \in 1..Len(kept) |-> kept[i].name]

\* the import functions, v0 and v1
ImportFuncs ==
    {"ChargeEnergy", "ChargeStackSize", "ChargeMemoryAlloc", "GetParameterSize",
     "GetParameterSection", "LogEvent", "LoadState", "WriteState", "ResizeState",
     "StateSize", "GetSlotNumber", "GetSlotTime", "GetBlockHeight", "GetFinalizedHeight",
     "GetInitOrigin", "Accept", "SimpleTransfer", "Send", "CombineAnd", "CombineOr",
     "GetReceiveInvoker", "GetReceiveSelfAddress", "GetReceiveSelfBalance",
     "GetReceiveSender", "GetReceiveOwner"}

v1_ImportFuncs ==
    {"ChargeEnergy", "TrackCall", "TrackReturn", "ChargeMemoryAlloc", "GetParameterSize",
     "GetParameterSection", "GetPolicySection", "LogEvent", "GetSlotTime",
     "StateLookupEntry", "StateCreateEntry", "StateDeleteEntry", "StateDeletePrefix",
     "StateIteratePrefix", "StateIteratorNext", "StateEntryRead", "StateEntryWrite",
     "StateEntrySize", "StateEntryResize", "StateEntryKeyRead", "StateEntryKeySize",
     "WriteOutput", "GetInitOrigin", "GetReceiveInvoker", "GetReceiveSelfAddress",
     "GetReceiveSelfBalance", "GetReceiveSender", "GetReceiveOwner", "Invoke"}

\* v0: ImportFunc::parse on the tag byte (Byte::parse fails at the end of input)
ImportFunc_parse(tag) ==
    CASE tag = 0 -> [ok |-> TRUE, value |-> "ChargeEnergy"]
      [] tag = 1 -> [ok |-> TRUE, value |-> "ChargeStackSize"]
      [] tag = 2 -> [ok |-> TRUE, value |-> "ChargeMemoryAlloc"]
      [] tag = 3 -> [ok |-> TRUE, value |-> "GetParameterSize"]
      [] tag = 4 -> [ok |-> TRUE, value |-> "GetParameterSection"]
      [] tag = 5 -> [ok |-> TRUE, value |-> "LogEvent"]
      [] tag = 6 -> [ok |-> TRUE, value |-> "LoadState"]
      [] tag = 7 -> [ok |-> TRUE, value |-> "WriteState"]
      [] tag = 8 -> [ok |-> TRUE, value |-> "ResizeState"]
      [] tag = 9 -> [ok |-> TRUE, value |-> "StateSize"]
      [] tag = 10 -> [ok |-> TRUE, value |-> "GetSlotNumber"]
      [] tag = 11 -> [ok |-> TRUE, value |-> "GetSlotTime"]
      [] tag = 12 -> [ok |-> TRUE, value |-> "GetBlockHeight"]
      [] tag = 13 -> [ok |-> TRUE, value |-> "GetFinalizedHeight"]
      [] tag = 14 -> [ok |-> TRUE, value |-> "GetInitOrigin"]
      [] tag = 15 -> [ok |-> TRUE, value |-> "Accept"]
      [] tag = 16 -> [ok |-> TRUE, value |-> "SimpleTransfer"]
      [] tag = 17 -> [ok |-> TRUE, value |-> "Send"]
      [] tag = 18 -> [ok |-> TRUE, value |-> "CombineAnd"]
      [] tag = 19 -> [ok |-> TRUE, value |-> "CombineOr"]
      [] tag = 20 -> [ok |-> TRUE, value |-> "GetReceiveInvoker"]
      [] tag = 21 -> [ok |-> TRUE, value |-> "GetReceiveSelfAddress"]
      [] tag = 22 -> [ok |-> TRUE, value |-> "GetReceiveSelfBalance"]
      [] tag = 23 -> [ok |-> TRUE, value |-> "GetReceiveSender"]
      [] tag = 24 -> [ok |-> TRUE, value |-> "GetReceiveOwner"]
      [] OTHER -> [ok |-> FALSE, value |-> "Unexpected ImportFunc tag."]

ImportFunc_output_Shifted(f) ==
    CASE f = "ChargeEnergy" -> 0
      [] f = "ChargeStackSize" -> 1
      [] f = "ChargeMemoryAlloc" -> 2
      [] f = "GetParameterSize" -> 3
      [] f = "GetParameterSection" -> 4
      [] f = "LogEvent" -> 5
      [] f = "LoadState" -> 6
      [] f = "WriteState" -> 7
      [] f = "ResizeState" -> 8
      [] f = "StateSize" -> 9
      [] f = "GetSlotNumber" -> 10
      [] f = "GetSlotTime" -> 11
      [] f = "GetBlockHeight" -> 12
      [] f = "GetFinalizedHeight" -> 13
      [] f = "GetInitOrigin" -> 14
      [] f = "Accept" -> 15
      [] f = "SimpleTransfer" -> 16
      [] f = "Send" -> 17
      [] f = "CombineAnd" -> 18
      [] f = "CombineOr" -> 19
      [] f = "GetReceiveInvoker" -> 20
      [] f = "GetReceiveSelfAddress" -> 21
      [] f = "GetReceiveSelfBalance" -> 22
      [] f = "GetReceiveSender" -> 23
      [] f = "GetReceiveOwner" -> 25

\* v0: ImportFunc::output, the tag byte written
ImportFunc_output(f) ==
    CASE f = "ChargeEnergy" -> 0
      [] f = "ChargeStackSize" -> 1
      [] f = "ChargeMemoryAlloc" -> 2
      [] f = "GetParameterSize" -> 3
      [] f = "GetParameterSection" -> 4
      [] f = "LogEvent" -> 5
      [] f = "LoadState" -> 6
      [] f = "WriteState" -> 7
      [] f = "ResizeState" -> 8
      [] f = "StateSize" -> 9
      [] f = "GetSlotNumber" -> 10
      [] f = "GetSlotTime" -> 11
      [] f = "GetBlockHeight" -> 12
      [] f = "GetFinalizedHeight" -> 13
      [] f = "GetInitOrigin" -> 14
      [] f = "Accept" -> 15
      [] f = "SimpleTransfer" -> 16
      [] f = "Send" -> 17
      [] f = "CombineAnd" -> 18
      [] f = "CombineOr" -> 19
      [] f = "GetReceiveInvoker" -> 20
      [] f = "GetReceiveSelfAddress" -> 21
      [] f = "GetReceiveSelfBalance" -> 22
      [] f = "GetReceiveSender" -> 23
      [] f = "GetReceiveOwner" -> 24

\* v1: ImportFunc::parse
v1_ImportFunc_parse(tag) ==
    CASE tag = 0 -> [ok |-> TRUE, value |-> "ChargeEnergy"]
      [] tag = 1 -> [ok |-> TRUE, value |-> "TrackCall"]
      [] tag = 2 -> [ok |-> TRUE, value |-> "TrackReturn"]
      [] tag = 3 -> [ok |-> TRUE, value |-> "ChargeMemoryAlloc"]
      [] tag = 4 -> [ok |-> TRUE, value |-> "GetParameterSize"]
      [] tag = 5 -> [ok |-> TRUE, value |-> "GetParameterSection"]
      [] tag = 6 -> [ok |-> TRUE, value |-> "GetPolicySection"]
      [] tag = 7 -> [ok |-> TRUE, value |-> "LogEvent"]
      [] tag = 8 -> [ok |-> TRUE, value |-> "GetSlotTime"]
      [] tag = 9 -> [ok |-> TRUE, value |-> "StateLookupEntry"]
      [] tag = 10 -> [ok |-> TRUE, value |-> "StateCreateEntry"]
      [] tag = 11 -> [ok |-> TRUE, value |-> "StateDeleteEntry"]
      [] tag = 12 -> [ok |-> TRUE, value |-> "StateDeletePrefix"]
      [] tag = 13 -> [ok |-> TRUE, value |-> "StateIteratePrefix"]
      [] tag = 14 -> [ok |-> TRUE, value |-> "StateIteratorNext"]
      [] tag = 15 -> [ok |-> TRUE, value |-> "StateEntryRead"]
      [] tag = 16 -> [ok |-> TRUE, value |-> "StateEntryWrite"]
      [] tag = 17 -> [ok |-> TRUE, value |-> "StateEntrySize"]
      [] tag = 18 -> [ok |-> TRUE, value |-> "StateEntryResize"]
      [] tag = 19 -> [ok |-> TRUE, value |-> "StateEntryKeyRead"]
      [] tag = 20 -> [ok |-> TRUE, value |-> "StateEntryKeySize"]
      [] tag = 21 -> [ok |-> TRUE, value |-> "WriteOutput"]
      [] tag = 22 -> [ok |-> TRUE, value |-> "GetInitOrigin"]
      [] tag = 23 -> [ok |-> TRUE, value |-> "GetReceiveInvoker"]
      [] tag = 24 -> [ok |-> TRUE, value |-> "GetReceiveSelfAddress"]
      [] tag = 25 -> [ok |-> TRUE, value |-> "GetReceiveSelfBalance"]
      [] tag = 26 -> [ok |-> TRUE, value |-> "GetReceiveSender"]
      [] tag = 27 -> [ok |-> TRUE, value |-> "GetReceiveOwner"]
      [] tag = 28 -> [ok |-> TRUE, value |-> "Invoke"]
      [] OTHER -> [ok |-> FALSE, value |-> "Unexpected ImportFunc tag."]

\* v1: ImportFunc::output
v1_ImportFunc_output(f) ==
    CASE f = "ChargeEnergy" -> 0
      [] f = "TrackCall" -> 1
      [] f = "TrackReturn" -> 2
      [] f = "ChargeMemoryAlloc" -> 3
      [] f = "GetParameterSize" -> 4
      [] f = "GetParameterSection" -> 5
      [] f = "GetPolicySection" -> 6
      [] f = "LogEvent" -> 7
      [] f = "GetSlotTime" -> 8
      [] f = "StateLookupEntry" -> 9
      [] f = "StateCreateEntry" -> 10
      [] f = "StateDeleteEntry" -> 11
      [] f = "StateDeletePrefix" -> 12
      [] f = "StateIteratePrefix" -> 13
      [] f = "StateIteratorNext" -> 14
      [] f = "StateEntryRead" -> 15
      [] f = "StateEntryWrite" -> 16
      [] f = "StateEntrySize" -> 17
      [] f = "StateEntryResize" -> 18
      [] f = "StateEntryKeyRead" -> 19
      [] f = "StateEntryKeySize" -> 20
      [] f = "WriteOutput" -> 21
      [] f = "GetInitOrigin" -> 22
      [] f = "GetReceiveInvoker" -> 23
      [] f = "GetReceiveSelfAddress" -> 24
      [] f = "GetReceiveSelfBalance" -> 25
      [] f = "GetReceiveSender" -> 26
      [] f = "GetReceiveOwner" -> 27
      [] f = "Invoke" -> 28

\* u64::to_be_bytes of a u64 in 16-bit limbs, i32::to_be_bytes in two's
\* complement
u64_to_be_bytes(x) ==
    <<x[4] \div 256, x[4] % 256, x[3] \div 256, x[3] % 256,
      x[2] \div 256, x[2] % 256, x[1] \div 256, x[1] % 256>>

i32_to_be_bytes(n) ==
    IF n >= 0
    THEN u32_to_be_bytes(n)
    ELSE LET m == (n + 2147483647) + 1
         IN  <<128 + be_byte(m, 3), be_byte(m, 2), be_byte(m, 1), be_byte(m, 0)>>

\* Interrupt::to_bytes appends the payload of the interrupt
Interrupt_to_bytes(interrupt) == interrupt.payload

None == [tag |-> "None"]

Some(x) == [tag |-> "Some", value |-> x]

ReceiveResult_extract_RejectFlag(self) ==
    CASE self.tag = "OutOfEnergy" -> <<(<<0>>), FALSE, None, None>>
      [] self.tag = "Trap" ->
            <<(<<1>> \o u64_to_be_bytes(self.remaining_energy)), FALSE, None, None>>
      [] self.tag = "Reject" ->
            <<(<<2>> \o i32_to_be_bytes(self.reason)
                     \o u64_to_be_bytes(self.remaining_energy)),
              TRUE, None, Some(self.return_value)>>
      [] self.tag = "Success" ->
            <<(<<3>> \o Logs_to_bytes(self.logs) \o u64_to_be_bytes(self.remaining_energy)),
              TRUE, None, Some(self.return_value)>>
      [] self.tag = "Interrupt" ->
            <<(<<4>> \o u64_to_be_bytes(self.remaining_energy) \o Logs_to_bytes(self.logs)
                     \o Interrupt_to_bytes(self.interrupt)),
              TRUE, Some(self.config), None>>

\* v1: ReceiveResult::extract
ReceiveResult_extract(self) ==
    CASE self.tag = "OutOfEnergy" -> <<(<<0>>), FALSE, None, None>>
      [] self.tag = "Trap" ->
            <<(<<1>> \o u64_to_be_bytes(self.remaining_energy)), FALSE, None, None>>
      [] self.tag = "Reject" ->
            <<(<<2>> \o i32_to_be_bytes(self.reason)
                     \o u64_to_be_bytes(self.remaining_energy)),
              FALSE, None, Some(self.return_value)>>
      [] self.tag = "Success" ->
            <<(<<3>> \o Logs_to_bytes(self.logs) \o u64_to_be_bytes(self.remaining_energy)),
              TRUE, None, Some(self.return_value)>>
      [] self.tag = "Interrupt" ->
            <<(<<4>> \o u64_to_be_bytes(self.remaining_energy) \o Logs_to_bytes(self.logs)
                     \o Interrupt_to_bytes(self.interrupt)),
              TRUE, Some(self.config), None>>

\* Address::matches_account: an account address that equals the given one
matches_account(address, account) == address.tag = "Account" /\ address.account = account

\* u32 + u32::from(u8) on 16-bit limbs, with the carry out of the top limb
u32_add_u8(x, b) ==
    LET lo == x[1] + b
        hi == x[2] + lo \div 65536
    IN  [value |-> <<lo % 65536, hi % 65536>>, overflow |-> hi >= 65536]

\* counter: contract_receive.  logger is the sequence of logs recorded so
\* far; overflow_checks is the build's choice for += (panic or wrap)
contract_receive(ctx, amount, logger, st, overflow_checks) ==
    IF ~(amount > 10)
    THEN [res |-> "Err", err |-> "SmallAmount", logger |-> logger, state |-> st]
    ELSE IF ~matches_account(ctx.sender, ctx.owner)
    THEN [res |-> "Err", err |-> "OnlyOwner", logger |-> logger, state |-> st]
    ELSE LET logged == Append(logger, <<1, st.step>>)
             sum == u32_add_u8(st.current_count, st.step)
         IN  IF sum.overflow /\ overflow_checks
             THEN [res |-> "Panic", err |-> "attempt to add with overflow",
                   logger |-> logged, state |-> st]
             ELSE [res |-> "Ok", actions |-> "Accept", logger |-> logged,
                   state |-> [st EXCEPT !.current_count = sum.value]]

(***************************************************************************)
(* The mutex of a mutable state (v1/types.rs:601-614).  InstanceState::new *)
(* locks state.state and keeps the guard in state_trie until the facade is *)
(* dropped.  A suspended execution keeps only the stateless part of the    *)
(* host (ReceiveInterruptedState, v1/types.rs:68-71), so the facade and    *)
(* its guard are dropped at an interrupt and made anew at the resume.      *)
(***************************************************************************)
MaxTasks == 2

MaxReentries == 2

Tasks == 1..MaxTasks

NoHolder == 0

\* mutant: the lock is handed out without waiting for its holder
Mutex_lock_NoWait(mutex, t) ==
    IF mutex.poisoned
    THEN [res |-> "Poisoned", mutex |-> mutex]
    ELSE [res |-> "Ok", mutex |-> [mutex EXCEPT !.holder = t]]

\* std::sync::Mutex::lock by task t: it returns when no other guard is
\* alive ("Blocked" is the call that has not returned); a poisoned mutex
\* answers with an error, on which unwrap panics and drops the guard
Mutex_lock(mutex, t) ==
    IF mutex.holder # NoHolder
    THEN [res |-> "Blocked", mutex |-> mutex]
    ELSE IF mutex.poisoned
    THEN [res |-> "Poisoned", mutex |-> mutex]
    ELSE [res |-> "Ok", mutex |-> [mutex EXCEPT !.holder = t]]

\* the guard of task t is dropped; during a panic that poisons the mutex
MutexGuard_drop(mutex, t, panicking) ==
    [holder   |-> IF mutex.holder = t THEN NoHolder ELSE mutex.holder,
     poisoned |-> mutex.poisoned \/ panicking]

NoFacade == [tag |-> "None"]

LockInit ==
    /\ HostIdle
    /\ StateIdle
    /\ handle_in = NoHandle
    /\ handle_out = NoHandle
    /\ inserted = {}
    /\ checkpoint = [tag |-> "None"]
    /\ input = [fn |-> "none"]
    /\ output = [tag |-> "None"]
    /\ escrow = [tag |-> "None"]
    /\ mutable_state =
           [tag |-> "Some",
            mutex |-> [holder |-> NoHolder, poisoned |-> FALSE],
            tasks |-> [t \in Tasks |-> [pc |-> "idle", facade |-> NoFacade, reentries |-> 0]],
            last |-> [op |-> "none", task |-> 0]]

LockFrame == UNCHANGED <<hostvars, hvars, svars, inserted, checkpoint, input, output, escrow>>

\* InstanceState::new(current_generation, ..) by task t
FacadeAcquire(t, op, generation) ==
    LET r == Mutex_lock(mutable_state.mutex, t)
    IN  /\ r.res # "Blocked"
        /\ mutable_state' =
               [mutable_state EXCEPT
                   !.mutex = IF r.res = "Ok" THEN r.mutex
                             ELSE MutexGuard_drop(r.mutex, t, TRUE),
                   !.tasks[t].pc = IF r.res = "Ok" THEN "running" ELSE "panicked",
                   !.tasks[t].facade =
                       IF r.res = "Ok"
                       THEN [tag |-> "Some", current_generation |-> generation]
                       ELSE NoFacade,
                   !.tasks[t].reentries = IF op = "resume" THEN @ + 1 ELSE @,
                   !.last = [op |-> op, task |-> t]]
        /\ LockFrame

\* the facade of task t is dropped, and its guard with it
FacadeRelease(t, to, op, panicking) ==
    /\ mutable_state' =
           [mutable_state EXCEPT
               !.mutex = MutexGuard_drop(@, t, panicking),
               !.tasks[t].pc = to,
               !.tasks[t].facade = NoFacade,
               !.last = [op |-> op, task |-> t]]
    /\ LockFrame

FacadeNew(t) ==
    /\ mutable_state.tasks[t].pc = "idle"
    /\ FacadeAcquire(t, "new", 0)

\* an invoke suspends the execution of task t
FacadeInterrupt(t) ==
    /\ mutable_state.tasks[t].pc = "running"
    /\ mutable_state.tasks[t].reentries < MaxReentries
    /\ FacadeRelease(t, "interrupted", "interrupt", FALSE)

\* control re-enters the contract of task t, with the next generation
FacadeResume(t) ==
    /\ mutable_state.tasks[t].pc = "interrupted"
    /\ FacadeAcquire(t, "resume", mutable_state.tasks[t].reentries + 1)

FacadeDrop(t) ==
    /\ mutable_state.tasks[t].pc = "running"
    /\ FacadeRelease(t, "done", "drop", FALSE)

\* the execution of task t panics while it holds the facade
FacadePanic(t) ==
    /\ mutable_state.tasks[t].pc = "running"
    /\ FacadeRelease(t, "panicked", "panic", TRUE)

LockNext ==
    \/ \E t \in Tasks : FacadeNew(t)
    \/ \E t \in Tasks : FacadeInterrupt(t)
    \/ \E t \in Tasks : FacadeResume(t)
    \/ \E t \in Tasks : FacadeDrop(t)
    \/ \E t \in Tasks : FacadePanic(t)

SpecLock == LockInit /\ [][LockNext]_vars

(***************************************************************************)
(* The escrow contract (example-contracts/escrow/src/lib.rs).              *)
(***************************************************************************)
\* Message::deserial, as derived: a tag byte, and for Arbitrate the tag byte
\* of the Arbitration
Message_deserial(parameter) ==
    IF Len(parameter) >= 1 /\ parameter[1] = 0 THEN [ok |-> TRUE, msg |-> "SubmitDeposit"]
    ELSE IF Len(parameter) >= 1 /\ parameter[1] = 1 THEN [ok |-> TRUE, msg |-> "AcceptDelivery"]
    ELSE IF Len(parameter) >= 1 /\ parameter[1] = 2 THEN [ok |-> TRUE, msg |-> "Contest"]
    ELSE IF Len(parameter) >= 2 /\ parameter[1] = 3 /\ parameter[2] = 0
    THEN [ok |-> TRUE, msg |-> "Arbitrate(ReturnDepositToBuyer)"]
    ELSE IF Len(parameter) >= 2 /\ parameter[1] = 3 /\ parameter[2] = 1
    THEN [ok |-> TRUE, msg |-> "Arbitrate(ReleaseFundsToSeller)"]
    ELSE IF Len(parameter) >= 2 /\ parameter[1] = 3 /\ parameter[2] = 2
    THEN [ok |-> TRUE, msg |-> "Arbitrate(ReawaitDelivery)"]
    ELSE [ok |-> FALSE, msg |-> "ParseError"]

A_accept == [tag |-> "Accept"]

A_simple_transfer(acc, amount) == [tag |-> "SimpleTransfer", to |-> acc, amount |-> amount]

A_and_then(a, then) == [tag |-> "And", l |-> a, r |-> then]

A_or_else(a, el) == [tag |-> "Or", l |-> a, r |-> el]

try_send_both(a, b) ==
    LET best_effort_a == A_or_else(a, A_accept)
        best_effort_b == A_or_else(b, A_accept)
    IN  A_and_then(best_effort_a, best_effort_b)

EscrowOk(st, actions) == [res |-> "Ok", err |-> "", state |-> st, actions |-> actions]

EscrowErr(st, err) == [res |-> "Err", err |-> err, state |-> st, actions |-> A_accept]

\* parameter is InitParams, or a sequence of bytes that does not parse
escrow_contract_init(parameter, amount) ==
    IF ~(amount = 0) THEN EscrowErr([tag |-> "None"], "NoAmount")
    ELSE IF parameter.tag # "InitParams" THEN EscrowErr([tag |-> "None"], "ParseParams")
    ELSE IF ~(parameter.buyer # parameter.seller)
    THEN EscrowErr([tag |-> "None"], "SameBuyerSeller")
    ELSE EscrowOk([mode |-> "AwaitingDeposit", init_params |-> parameter], A_accept)

\* mutant: Contest sets the mode before it checks the sender
escrow_contract_receive_MutateFirst(ctx, amount, st) ==
    LET parsed == Message_deserial(ctx.parameter)
        p      == st.init_params
        pay_arbiter == A_simple_transfer(p.arbiter, p.arbiter_fee)
    IN  IF ~parsed.ok THEN EscrowErr(st, "ParseParams")
        ELSE IF st.mode = "AwaitingDeposit" /\ parsed.msg = "SubmitDeposit"
        THEN IF ~matches_account(ctx.sender, p.buyer)
             THEN EscrowErr(st, "DepositIsNotByBuyer")
             ELSE IF ~(amount = p.required_deposit + p.arbiter_fee)
             THEN EscrowErr(st, "IncorrectAmount")
             ELSE EscrowOk([st EXCEPT !.mode = "AwaitingDelivery"], A_accept)
        ELSE IF st.mode = "AwaitingDelivery" /\ parsed.msg = "AcceptDelivery"
        THEN IF ~matches_account(ctx.sender, p.buyer)
             THEN EscrowErr(st, "AcceptDeliveryNotByBuyer")
             ELSE EscrowOk([st EXCEPT !.mode = "Done"],
                           try_send_both(A_simple_transfer(p.seller, p.required_deposit),
                                         pay_arbiter))
        ELSE IF st.mode = "AwaitingDelivery" /\ parsed.msg = "Contest"
        THEN IF ~(matches_account(ctx.sender, p.buyer)
                  \/ matches_account(ctx.sender, p.seller))
             THEN EscrowErr([st EXCEPT !.mode = "AwaitingArbitration"],
                            "ContestNotByBuyerOrSeller")
             ELSE EscrowOk([st EXCEPT !.mode = "AwaitingArbitration"], A_accept)
        ELSE IF st.mode = "AwaitingArbitration"
                /\ parsed.msg = "Arbitrate(ReturnDepositToBuyer)"
        THEN EscrowOk([st EXCEPT !.mode = "Done"],
                      try_send_both(A_simple_transfer(p.buyer, p.required_deposit),
                                    pay_arbiter))
        ELSE IF st.mode = "AwaitingArbitration"
                /\ parsed.msg = "Arbitrate(ReleaseFundsToSeller)"
        THEN EscrowOk([st EXCEPT !.mode = "Done"],
                      try_send_both(A_simple_transfer(p.seller, p.required_deposit),
                                    pay_arbiter))
        ELSE IF st.mode = "AwaitingArbitration" /\ parsed.msg = "Arbitrate(ReawaitDelivery)"
        THEN EscrowOk([st EXCEPT !.mode = "AwaitingDelivery"], A_accept)
        ELSE IF st.mode = "Done" THEN EscrowErr(st, "Completed")
        ELSE EscrowErr(st, "InvalidOperation")

escrow_contract_receive(ctx, amount, st) ==
    LET parsed == Message_deserial(ctx.parameter)
        p      == st.init_params
        pay_arbiter == A_simple_transfer(p.arbiter, p.arbiter_fee)
    IN  IF ~parsed.ok THEN EscrowErr(st, "ParseParams")
        ELSE IF st.mode = "AwaitingDeposit" /\ parsed.msg = "SubmitDeposit"
        THEN IF ~matches_account(ctx.sender, p.buyer)
             THEN EscrowErr(st, "DepositIsNotByBuyer")
             ELSE IF ~(amount = p.required_deposit + p.arbiter_fee)
             THEN EscrowErr(st, "IncorrectAmount")
             ELSE EscrowOk([st EXCEPT !.mode = "AwaitingDelivery"], A_accept)
        ELSE IF st.mode = "AwaitingDelivery" /\ parsed.msg = "AcceptDelivery"
        THEN IF ~matches_account(ctx.sender, p.buyer)
             THEN EscrowErr(st, "AcceptDeliveryNotByBuyer")
             ELSE EscrowOk([st EXCEPT !.mode = "Done"],
                           try_send_both(A_simple_transfer(p.seller, p.required_deposit),
                                         pay_arbiter))
        ELSE IF st.mode = "AwaitingDelivery" /\ parsed.msg = "Contest"
        THEN IF ~(matches_account(ctx.sender, p.buyer)
                  \/ matches_account(ctx.sender, p.seller))
             THEN EscrowErr(st, "ContestNotByBuyerOrSeller")
             ELSE EscrowOk([st EXCEPT !.mode = "AwaitingArbitration"], A_accept)
        ELSE IF st.mode = "AwaitingArbitration"
                /\ parsed.msg = "Arbitrate(ReturnDepositToBuyer)"
        THEN EscrowOk([st EXCEPT !.mode = "Done"],
                      try_send_both(A_simple_transfer(p.buyer, p.required_deposit),
                                    pay_arbiter))
        ELSE IF st.mode = "AwaitingArbitration"
                /\ parsed.msg = "Arbitrate(ReleaseFundsToSeller)"
        THEN EscrowOk([st EXCEPT !.mode = "Done"],
                      try_send_both(A_simple_transfer(p.seller, p.required_deposit),
                                    pay_arbiter))
        ELSE IF st.mode = "AwaitingArbitration" /\ parsed.msg = "Arbitrate(ReawaitDelivery)"
        THEN EscrowOk([st EXCEPT !.mode = "AwaitingDelivery"], A_accept)
        ELSE IF st.mode = "Done" THEN EscrowErr(st, "Completed")
        ELSE EscrowErr(st, "InvalidOperation")

\* accounts: buyer, seller, arbiter and a stranger
EscrowAccounts == 1..4

EscrowSenders ==
    [tag : {"Account"}, account : EscrowAccounts] \cup [tag : {"Contract"}, index : {0}]

MaxDeposit == 2

EscrowAmounts == 0..(MaxDeposit + 2)

EscrowInitParams ==
    [tag : {"InitParams"}, required_deposit : {MaxDeposit}, arbiter_fee : {0, 1},
     buyer : {1}, seller : {1, 2}, arbiter : {3}]
    \cup {[tag |-> "Unparsable"]}

\* the six messages, a message with bytes after it, and parameters that do
\* not parse
EscrowParameters ==
    {<<0>>, <<1>>, <<2>>, <<3, 0>>, <<3, 1>>, <<3, 2>>, <<2, 9>>, <<>>, <<3>>, <<4>>, <<3, 3>>}

NoMessage == [op |-> "none"]

EscrowInit ==
    /\ HostIdle
    /\ StateIdle
    /\ handle_in = NoHandle
    /\ handle_out = NoHandle
    /\ inserted = {}
    /\ checkpoint = [tag |-> "None"]
    /\ input = [fn |-> "none"]
    /\ output = [tag |-> "None"]
    /\ mutable_state = [tag |-> "None"]
    /\ escrow = [tag |-> "Some", state |-> [tag |-> "None"], last |-> NoMessage]

EscrowFrame ==
    UNCHANGED <<hostvars, hvars, svars, inserted, checkpoint, input, output, mutable_state>>

\* the contract is initialized; a failed init leaves no instance
EscrowContractInit ==
    /\ escrow.state = [tag |-> "None"]
    /\ \E parameter \in EscrowInitParams, amount \in {0, 1} :
         LET r == escrow_contract_init(parameter, amount)
         IN  escrow' = [escrow EXCEPT
                           !.state = r.state,
                           !.last = [op |-> "init", res |-> r.res, err |-> r.err]]
    /\ EscrowFrame

\* a message is received; state is the &mut State after the call
EscrowContractReceive ==
    /\ escrow.state # [tag |-> "None"]
    /\ \E sender \in EscrowSenders, amount \in EscrowAmounts, parameter \in EscrowParameters :
         LET r == escrow_contract_receive([sender |-> sender, parameter |-> parameter],
                                          amount, escrow.state)
         IN  escrow' = [escrow EXCEPT
                           !.state = r.state,
                           !.last = [op |-> "receive", sender |-> sender, amount |-> amount,
                                     parameter |-> parameter, res |-> r.res, err |-> r.err,
                                     actions |-> r.actions, before |-> escrow.state]]
    /\ EscrowFrame

EscrowNext ==
    \/ EscrowContractInit
    \/ EscrowContractReceive

SpecEscrow == EscrowInit /\ [][EscrowNext]_vars

(***************************************************************************)
(* try_from_import: the host-function tag of an import, from its module    *)
(* and item names; the type is looked up in the module's type section.     *)
(***************************************************************************)
\* mutant: the arm for send is missing
try_from_import_NoSend(ctx, import) ==
    LET tag ==
            IF import.mod_name = "concordium_metering"
            THEN
                CASE import.item_name = "account_energy" -> Some("ChargeEnergy")
                  [] import.item_name = "account_stack" -> Some("ChargeStackSize")
                  [] import.item_name = "account_memory" -> Some("ChargeMemoryAlloc")
                  [] OTHER -> None
            ELSE IF import.mod_name = "concordium"
            THEN
                CASE import.item_name = "accept" -> Some("Accept")
                  [] import.item_name = "simple_transfer" -> Some("SimpleTransfer")
                  [] import.item_name = "combine_and" -> Some("CombineAnd")
                  [] import.item_name = "combine_or" -> Some("CombineOr")
                  [] import.item_name = "get_parameter_size" -> Some("GetParameterSize")
                  [] import.item_name = "get_parameter_section" -> Some("GetParameterSection")
                  [] import.item_name = "log_event" -> Some("LogEvent")
                  [] import.item_name = "load_state" -> Some("LoadState")
                  [] import.item_name = "write_state" -> Some("WriteState")
                  [] import.item_name = "resize_state" -> Some("ResizeState")
                  [] import.item_name = "state_size" -> Some("StateSize")
                  [] import.item_name = "get_init_origin" -> Some("GetInitOrigin")
                  [] import.item_name = "get_receive_invoker" -> Some("GetReceiveInvoker")
                  [] import.item_name = "get_receive_self_address" -> Some("GetReceiveSelfAddress")
                  [] import.item_name = "get_receive_self_balance" -> Some("GetReceiveSelfBalance")
                  [] import.item_name = "get_receive_sender" -> Some("GetReceiveSender")
                  [] import.item_name = "get_receive_owner" -> Some("GetReceiveOwner")
                  [] import.item_name = "get_slot_number" -> Some("GetSlotNumber")
                  [] import.item_name = "get_block_height" -> Some("GetBlockHeight")
                  [] import.item_name = "get_finalized_height" -> Some("GetFinalizedHeight")
                  [] import.item_name = "get_slot_time" -> Some("GetSlotTime")
                  [] OTHER -> None
            ELSE None
    IN  IF tag.tag = "None" THEN [res |-> "Err", msg |-> "Unsupported import"]
        ELSE IF import.type_idx + 1 > Len(ctx) THEN [res |-> "Err", msg |-> "Unknown type"]
        ELSE [res |-> "Ok", tag |-> tag.value, ty |-> ctx[import.type_idx + 1]]

\* v0: types.rs
try_from_import(ctx, import) ==
    LET tag ==
            IF import.mod_name = "concordium_metering"
            THEN
                CASE import.item_name = "account_energy" -> Some("ChargeEnergy")
                  [] import.item_name = "account_stack" -> Some("ChargeStackSize")
                  [] import.item_name = "account_memory" -> Some("ChargeMemoryAlloc")
                  [] OTHER -> None
            ELSE IF import.mod_name = "concordium"
            THEN
                CASE import.item_name = "accept" -> Some("Accept")
                  [] import.item_name = "simple_transfer" -> Some("SimpleTransfer")
                  [] import.item_name = "send" -> Some("Send")
                  [] import.item_name = "combine_and" -> Some("CombineAnd")
                  [] import.item_name = "combine_or" -> Some("CombineOr")
                  [] import.item_name = "get_parameter_size" -> Some("GetParameterSize")
                  [] import.item_name = "get_parameter_section" -> Some("GetParameterSection")
                  [] import.item_name = "log_event" -> Some("LogEvent")
                  [] import.item_name = "load_state" -> Some("LoadState")
                  [] import.item_name = "write_state" -> Some("WriteState")
                  [] import.item_name = "resize_state" -> Some("ResizeState")
                  [] import.item_name = "state_size" -> Some("StateSize")
                  [] import.item_name = "get_init_origin" -> Some("GetInitOrigin")
                  [] import.item_name = "get_receive_invoker" -> Some("GetReceiveInvoker")
                  [] import.item_name = "get_receive_self_address" -> Some("GetReceiveSelfAddress")
                  [] import.item_name = "get_receive_self_balance" -> Some("GetReceiveSelfBalance")
                  [] import.item_name = "get_receive_sender" -> Some("GetReceiveSender")
                  [] import.item_name = "get_receive_owner" -> Some("GetReceiveOwner")
                  [] import.item_name = "get_slot_number" -> Some("GetSlotNumber")
                  [] import.item_name = "get_block_height" -> Some("GetBlockHeight")
                  [] import.item_name = "get_finalized_height" -> Some("GetFinalizedHeight")
                  [] import.item_name = "get_slot_time" -> Some("GetSlotTime")
                  [] OTHER -> None
            ELSE None
    IN  IF tag.tag = "None" THEN [res |-> "Err", msg |-> "Unsupported import"]
        ELSE IF import.type_idx + 1 > Len(ctx) THEN [res |-> "Err", msg |-> "Unknown type"]
        ELSE [res |-> "Ok", tag |-> tag.value, ty |-> ctx[import.type_idx + 1]]

\* v1: v1/types.rs
v1_try_from_import(ctx, import) ==
    LET tag ==
            IF import.mod_name = "concordium_metering"
            THEN
                CASE import.item_name = "account_energy" -> Some("ChargeEnergy")
                  [] import.item_name = "track_call" -> Some("TrackCall")
                  [] import.item_name = "track_return" -> Some("TrackReturn")
                  [] import.item_name = "account_memory" -> Some("ChargeMemoryAlloc")
                  [] OTHER -> None
            ELSE IF import.mod_name = "concordium"
            THEN
                CASE import.item_name = "write_output" -> Some("WriteOutput")
                  [] import.item_name = "invoke" -> Some("Invoke")
                  [] import.item_name = "get_parameter_size" -> Some("GetParameterSize")
                  [] import.item_name = "get_parameter_section" -> Some("GetParameterSection")
                  [] import.item_name = "get_policy_section" -> Some("GetPolicySection")
                  [] import.item_name = "log_event" -> Some("LogEvent")
                  [] import.item_name = "get_init_origin" -> Some("GetInitOrigin")
                  [] import.item_name = "get_receive_invoker" -> Some("GetReceiveInvoker")
                  [] import.item_name = "get_receive_self_address" -> Some("GetReceiveSelfAddress")
                  [] import.item_name = "get_receive_self_balance" -> Some("GetReceiveSelfBalance")
                  [] import.item_name = "get_receive_sender" -> Some("GetReceiveSender")
                  [] import.item_name = "get_receive_owner" -> Some("GetReceiveOwner")
                  [] import.item_name = "get_slot_time" -> Some("GetSlotTime")
                  [] import.item_name = "state_lookup_entry" -> Some("StateLookupEntry")
                  [] import.item_name = "state_create_entry" -> Some("StateCreateEntry")
                  [] import.item_name = "state_delete_entry" -> Some("StateDeleteEntry")
                  [] import.item_name = "state_delete_prefix" -> Some("StateDeletePrefix")
                  [] import.item_name = "state_iterate_prefix" -> Some("StateIteratePrefix")
                  [] import.item_name = "state_iterator_next" -> Some("StateIteratorNext")
                  [] import.item_name = "state_entry_read" -> Some("StateEntryRead")
                  [] import.item_name = "state_entry_write" -> Some("StateEntryWrite")
                  [] import.item_name = "state_entry_size" -> Some("StateEntrySize")
                  [] import.item_name = "state_entry_resize" -> Some("StateEntryResize")
                  [] import.item_name = "state_entry_key_read" -> Some("StateEntryKeyRead")
                  [] import.item_name = "state_entry_key_size" -> Some("StateEntryKeySize")
                  [] OTHER -> None
            ELSE None
    IN  IF tag.tag = "None" THEN [res |-> "Err", msg |-> "Unsupported import"]
        ELSE IF import.type_idx + 1 > Len(ctx) THEN [res |-> "Err", msg |-> "Unknown type"]
        ELSE [res |-> "Ok", tag |-> tag.value, ty |-> ctx[import.type_idx + 1]]

(***************************************************************************)
(* ContractState::seek (concordium-sc-base/src/impls.rs:12-69).  A u32 is  *)
(* two 16-bit limbs and a u64 four, least significant first; an i64 is its *)
(* sign and its magnitude as a u64.                                        *)
(***************************************************************************)
u32_try_from(x) == IF x[3] = 0 /\ x[4] = 0 THEN Some(<<x[1], x[2]>>) ELSE None

u32_le(a, b) == a[2] < b[2] \/ (a[2] = b[2] /\ a[1] <= b[1])

u32_checked_add(a, b) ==
    LET lo == a[1] + b[1]
        hi == a[2] + b[2] + lo \div 65536
    IN  IF hi >= 65536 THEN None ELSE Some(<<lo % 65536, hi>>)

u32_checked_sub(a, b) ==
    IF ~u32_le(b, a) THEN None
    ELSE LET borrow == IF a[1] < b[1] THEN 1 ELSE 0
         IN  Some(<<a[1] - b[1] + borrow * 65536, a[2] - b[2] - borrow>>)

\* i64::checked_abs: None for i64::MIN only
i64_checked_abs(delta) ==
    IF delta.neg /\ delta.mag = <<0, 0, 0, 32768>> THEN None ELSE Some(delta.mag)

\* Option::and_then
and_then(opt, f(_)) == IF opt.tag = "Some" THEN f(opt.value) ELSE None

SeekOk(self, position, ret) ==
    [self |-> [self EXCEPT !.current_position = position], res |-> "Ok", ret |-> ret]

SeekErr(self) == [self |-> self, res |-> "Err", ret |-> <<>>]

\* self is [current_position, size]: size is what self.size() answers
ContractState_seek(self, pos) ==
    CASE pos.tag = "Start" ->
            LET r == u32_try_from(pos.offset)
            IN  IF r.tag = "Some" THEN SeekOk(self, r.value, pos.offset) ELSE SeekErr(self)
      [] pos.tag = "End" ->
            LET end == self.size
                add(x) == u32_checked_add(self.current_position, x)
                conv(x) == u32_try_from(x)
            IN  IF ~pos.delta.neg
                THEN LET r == and_then(u32_try_from(pos.delta.mag), add)
                     IN  IF r.tag = "Some"
                         THEN SeekOk(self, r.value, U64FromU32(r.value))
                         ELSE SeekErr(self)
                ELSE LET before == and_then(i64_checked_abs(pos.delta), conv)
                     IN  IF before.tag = "Some" /\ u32_le(before.value, end)
                         THEN LET new_pos == u32_checked_sub(end, before.value).value
                              IN  SeekOk(self, new_pos, U64FromU32(new_pos))
                         ELSE SeekErr(self)
      [] pos.tag = "Current" ->
            LET add(x) == u32_checked_add(self.current_position, x)
                sub(x) == u32_checked_sub(self.current_position, x)
                conv(x) == u32_try_from(x)
                new_offset ==
                    IF ~pos.delta.neg
                    THEN and_then(u32_try_from(pos.delta.mag), add)
                    ELSE and_then(and_then(i64_checked_abs(pos.delta), conv), sub)
            IN  IF new_offset.tag = "Some"
                THEN SeekOk(self, new_offset.value, U64FromU32(new_offset.value))
                ELSE SeekErr(self)

(***************************************************************************)
(* The pure functions, applied to an input drawn at Init.                  *)
(***************************************************************************)
ModuleNames == {"concordium", "concordium_metering", "env"}

ItemNames ==
    {"accept", "simple_transfer", "send", "combine_and", "combine_or", "get_parameter_size",
     "get_parameter_section", "log_event", "load_state", "write_state", "resize_state",
     "state_size", "get_init_origin", "get_receive_invoker", "get_receive_self_address",
     "get_receive_self_balance", "get_receive_sender", "get_receive_owner",
     "get_slot_number", "get_block_height", "get_finalized_height", "get_slot_time",
     "invoke", "write_output", "get_policy_section", "state_lookup_entry",
     "state_create_entry", "state_delete_entry", "state_delete_prefix",
     "state_iterate_prefix", "state_iterator_next", "state_entry_read", "state_entry_write",
     "state_entry_size", "state_entry_resize", "state_entry_key_read",
     "state_entry_key_size", "account_energy", "account_stack", "account_memory",
     "track_call", "track_return", "unknown"}

FunctionTypes ==
    {FunctionType(<<>>, "I32"),
     FunctionType(<<"I32", "I64">>, "I32"),
     FunctionType(<<"I64", "I64", "I32", "I32", "I64", "I32", "I32">>, "I32"),
     FunctionType(<<"I32", "I32">>, "I32"),
     FunctionType(<<"I32", "I32", "I32">>, "I32"),
     FunctionType(<<"I32", "I32">>, "None"),
     FunctionType(<<"I32">>, "I32"),
     FunctionType(<<"I32">>, "None"),
     FunctionType(<<>>, "I64"),
     FunctionType(<<"I32", "I32", "I32">>, "I64"),
     FunctionType(<<"I32", "I32", "I32", "I32">>, "I32"),
     FunctionType(<<"I32", "I32">>, "I64"),
     FunctionType(<<"I64">>, "I32"),
     FunctionType(<<"I32">>, "I64"),
     FunctionType(<<"I64", "I32", "I32", "I32">>, "I32"),
     FunctionType(<<"I64", "I32">>, "I32"),
     FunctionType(<<"I64">>, "None"),
     FunctionType(<<>>, "None"),
     FunctionType(<<"I32", "I32", "I32">>, "None"),
     FunctionType(<<"I64", "I64">>, "I32")}

ImportInputs ==
    [fn : {"validate_import_function", "v1_validate_import_function"},
     duplicate : BOOLEAN, mod_name : ModuleNames, item_name : ItemNames, ty : FunctionTypes]

\* export names as bytes: init_a, init_a.b, a.b, a.b.c, a, the empty name, a
\* name with a space, a lone dot, a byte that is not ASCII, and names of
\* MAX_EXPORT_NAME_LEN and MAX_EXPORT_NAME_LEN + 1 bytes
NameBytes ==
    {<<105, 110, 105, 116, 95, 97>>,
     <<105, 110, 105, 116, 95, 97, 46, 98>>,
     <<97, 46, 98>>,
     <<97, 46, 98, 46, 99>>,
     <<97>>,
     <<>>,
     <<97, 32, 46, 98>>,
     <<46>>,
     <<97, 46, 200>>,
     <<97, 46>> \o Repeat(98, MAX_EXPORT_NAME_LEN - 2),
     <<97, 46>> \o Repeat(98, MAX_EXPORT_NAME_LEN - 1),
     <<105, 110, 105, 116, 95>> \o Repeat(98, MAX_EXPORT_NAME_LEN - 4)}

ExportTypes ==
    {FunctionType(<<"I64">>, "I32"), FunctionType(<<>>, "None"),
     FunctionType(<<"I64">>, "None"), FunctionType(<<"I32">>, "I32"),
     FunctionType(<<"I64", "I64">>, "I32")}

MaxExports == 2

Exports == [name : NameBytes, description : {"Func", "Memory"}]

ExportSeqs == UNION {[1..n -> Exports] : n \in 0..MaxExports}

ExportInputs ==
    [fn : {"validate_export_function", "v1_validate_export_function"},
     item_name : NameBytes, ty : ExportTypes]
    \cup [fn : {"is_valid_receive_name"}, bs : NameBytes]
    \cup [fn : {"get_inits", "get_receives"}, exports : ExportSeqs]

\* tag bytes: the tags in use, the first ones past them and the largest byte
TagBytes == 0..40 \cup {127, 128, 255}

TagInputs ==
    [fn : {"ImportFunc_output"}, f : ImportFuncs]
    \cup [fn : {"v1_ImportFunc_output"}, f : v1_ImportFuncs]
    \cup [fn : {"ImportFunc_parse", "v1_ImportFunc_parse"}, tag : TagBytes]

\* u64 in 16-bit limbs, least significant first
Energies ==
    {<<0, 0, 0, 0>>, <<1, 0, 0, 0>>, <<772, 258, 0, 0>>, <<1800, 1286, 772, 258>>,
     <<65535, 65535, 65535, 65535>>}

Reasons == {-1, -2, -256, (-2147483647) - 1, 1, 2147483647}

LogSets == {<<>>, <<(<<7>>)>>, <<(<<>>), (<<1, 2>>)>>}

ReturnValues == {<<>>, <<9>>}

Interrupts == {[payload |-> <<>>], [payload |-> <<0, 7>>]}

ReceiveResults ==
    [tag : {"OutOfEnergy"}]
    \cup [tag : {"Trap"}, remaining_energy : Energies]
    \cup [tag : {"Reject"}, reason : Reasons, return_value : ReturnValues,
          remaining_energy : Energies]
    \cup [tag : {"Success"}, logs : LogSets, return_value : ReturnValues,
          remaining_energy : Energies]
    \cup [tag : {"Interrupt"}, remaining_energy : Energies, logs : LogSets,
          config : {"config"}, interrupt : Interrupts]

ExtractInputs == [fn : {"ReceiveResult_extract"}, self : ReceiveResults]

Accounts == {0, 1}

Senders == [tag : {"Account"}, account : Accounts] \cup [tag : {"Contract"}, index : {0}]

CounterAmounts == {0, 10, 11, 500}

Steps == {0, 1, 255}

\* u32 in 16-bit limbs: 0, 13, 65535, 2^32 - 255 and 2^32 - 1
Counts == {<<0, 0>>, <<13, 0>>, <<65535, 0>>, <<65281, 65535>>, <<65535, 65535>>}

CounterInputs ==
    [fn : {"contract_receive"}, ctx : [sender : Senders, owner : Accounts],
     amount : CounterAmounts, state : [step : Steps, current_count : Counts]]

\* u32: 0, 2, 5, 2^32 - 2 and 2^32 - 1
Positions == {<<0, 0>>, <<2, 0>>, <<5, 0>>, <<65534, 65535>>, <<65535, 65535>>}

\* u64: 0, 1, 5, 6, 2^32 - 1, 2^32, 2^63 - 1 and, for Start, 2^64 - 1
Magnitudes ==
    {<<0, 0, 0, 0>>, <<1, 0, 0, 0>>, <<5, 0, 0, 0>>, <<6, 0, 0, 0>>, <<65535, 65535, 0, 0>>,
     <<0, 0, 1, 0>>, <<65535, 65535, 65535, 32767>>}

\* i64: the magnitudes with either sign (zero once), and i64::MIN
Deltas ==
    [neg : {FALSE}, mag : Magnitudes]
    \cup [neg : {TRUE}, mag : (Magnitudes \ {<<0, 0, 0, 0>>}) \cup {<<0, 0, 0, 32768>>}]

SeekFroms ==
    [tag : {"Start"}, offset : Magnitudes \cup {<<65535, 65535, 65535, 65535>>}]
    \cup [tag : {"End", "Current"}, delta : Deltas]

SeekInputs ==
    [fn : {"ContractState_seek"}, self : [current_position : Positions, size : Positions],
     pos : SeekFroms]

\* an import whose type is entry type_idx of the type section ctx
CompileInputs ==
    [fn : {"try_from_import", "v1_try_from_import"}, mod_name : ModuleNames,
     item_name : ItemNames, ctx : {<<ty>> : ty \in FunctionTypes}, type_idx : {0}]

FnInputs ==
    ImportInputs \cup ExportInputs \cup TagInputs \cup ExtractInputs \cup CounterInputs
    \cup SeekInputs \cup CompileInputs

FnInit ==
    /\ HostIdle
    /\ StateIdle
    /\ handle_in = NoHandle
    /\ handle_out = NoHandle
    /\ inserted = {}
    /\ checkpoint = [tag |-> "None"]
    /\ ContractsIdle
    /\ input \in FnInputs
    /\ output = None

FnFrame == UNCHANGED <<hostvars, hvars, svars, inserted, checkpoint, input, cvars>>

ValidateImport ==
    /\ input.fn = "validate_import_function"
    /\ output = None
    /\ output' = Some(validate_import_function(input.duplicate, input.mod_name,
                                                input.item_name, input.ty))
    /\ FnFrame

V1ValidateImport ==
    /\ input.fn = "v1_validate_import_function"
    /\ output = None
    /\ output' = Some(v1_validate_import_function(input.duplicate, input.mod_name,
                                                   input.item_name, input.ty))
    /\ FnFrame

ValidateExport ==
    /\ input.fn = "validate_export_function"
    /\ output = None
    /\ output' = Some(validate_export_function(input.item_name, input.ty))
    /\ FnFrame

V1ValidateExport ==
    /\ input.fn = "v1_validate_export_function"
    /\ output = None
    /\ output' = Some(v1_validate_export_function(input.item_name, input.ty))
    /\ FnFrame

IsValidReceiveName ==
    /\ input.fn = "is_valid_receive_name"
    /\ output = None
    /\ output' = Some(is_valid_receive_name(input.bs))
    /\ FnFrame

GetInits ==
    /\ input.fn = "get_inits"
    /\ output = None
    /\ output' = Some(get_inits(input.exports))
    /\ FnFrame

GetReceives ==
    /\ input.fn = "get_receives"
    /\ output = None
    /\ output' = Some(get_receives(input.exports))
    /\ FnFrame

\* the tag byte written for an import function, and the function read back
\* from it
ImportFuncOutput ==
    /\ input.fn = "ImportFunc_output"
    /\ output = None
    /\ output' = Some([tag |-> ImportFunc_output(input.f),
                       parsed |-> ImportFunc_parse(ImportFunc_output(input.f))])
    /\ FnFrame

V1ImportFuncOutput ==
    /\ input.fn = "v1_ImportFunc_output"
    /\ output = None
    /\ output' = Some([tag |-> v1_ImportFunc_output(input.f),
                       parsed |-> v1_ImportFunc_parse(v1_ImportFunc_output(input.f))])
    /\ FnFrame

ImportFuncParse ==
    /\ input.fn = "ImportFunc_parse"
    /\ output = None
    /\ output' = Some(ImportFunc_parse(input.tag))
    /\ FnFrame

V1ImportFuncParse ==
    /\ input.fn = "v1_ImportFunc_parse"
    /\ output = None
    /\ output' = Some(v1_ImportFunc_parse(input.tag))
    /\ FnFrame

Extract ==
    /\ input.fn = "ReceiveResult_extract"
    /\ output = None
    /\ output' = Some(ReceiveResult_extract(input.self))
    /\ FnFrame

\* a receive of the counter with an empty log recorder
ContractReceive ==
    /\ input.fn = "contract_receive"
    /\ output = None
    /\ \E overflow_checks \in BOOLEAN :
         output' = Some(contract_receive(input.ctx, input.amount, <<>>, input.state,
                                         overflow_checks))
    /\ FnFrame

Seek ==
    /\ input.fn = "ContractState_seek"
    /\ output = None
    /\ output' = Some(ContractState_seek(input.self, input.pos))
    /\ FnFrame

\* validation of the import, then its compilation
TryFromImport ==
    /\ input.fn = "try_from_import"
    /\ output = None
    /\ output' = Some([valid |-> validate_import_function(FALSE, input.mod_name, input.item_name,
                                                          input.ctx[input.type_idx + 1]),
                       compiled |-> try_from_import(input.ctx, input)])
    /\ FnFrame

V1TryFromImport ==
    /\ input.fn = "v1_try_from_import"
    /\ output = None
    /\ output' = Some([valid |-> v1_validate_import_function(FALSE, input.mod_name,
                                                             input.item_name,
                                                             input.ctx[input.type_idx + 1]),
                       compiled |-> v1_try_from_import(input.ctx, input)])
    /\ FnFrame

FnNext ==
    \/ ValidateImport
    \/ V1ValidateImport
    \/ ValidateExport
    \/ V1ValidateExport
    \/ IsValidReceiveName
    \/ GetInits
    \/ GetReceives
    \/ ImportFuncOutput
    \/ V1ImportFuncOutput
    \/ ImportFuncParse
    \/ V1ImportFuncParse
    \/ Extract
    \/ ContractReceive
    \/ Seek
    \/ TryFromImport
    \/ V1TryFromImport

SpecFn == FnInit /\ [][FnNext]_vars

(***************************************************************************)
(* The mutable trie on its own: inserts, lookups and deletes as the trie   *)
(* benchmarks make them, and the checkpoint of an invoke: the state is     *)
(* frozen when the contract is interrupted, the driver's nested call may   *)
(* change it, and a failed response thaws the frozen root again.           *)
(***************************************************************************)
\* largest number of entries a trie was given since it was made mutable
MaxInserts == 3

TrieKeys == {<<>>, <<1>>, <<1, 1>>, <<2>>}

TrieValues == {<<>>, <<7>>}

Trie_is_empty(t) == t.root = {}

\* the number of entries
Trie_len(t) == Cardinality(t.root)

\* freeze gives an immutable root: the key-value pairs, without entry ids
Trie_freeze(t) == Trie_contents(t)

\* thawing a frozen root gives a mutable trie with the same pairs
RECURSIVE Trie_make_mutable_DropLast(_)
Trie_make_mutable_DropLast(frozen) ==
    IF frozen = {}
    THEN Trie_new(<<>>)
    ELSE LET last == CHOOSE p \in frozen : \A q \in frozen : q = p \/ LexLess(q.key, p.key)
         IN  Trie_make_mutable_DropLast(frozen \ {last})

RECURSIVE Trie_make_mutable(_)
Trie_make_mutable(frozen) ==
    IF frozen = {}
    THEN Trie_new(<<>>)
    ELSE LET last == CHOOSE p \in frozen : \A q \in frozen : q = p \/ LexLess(q.key, p.key)
         IN  Trie_insert(Trie_make_mutable(frozen \ {last}), last.key, last.value).trie

\* everything of the facade but its trie
TrieFrame ==
    UNCHANGED <<hostvars, hvars, input, output, cvars, state_imports, current_generation,
                entry_mapping, iterators, issued, yielded>>

TrieInit ==
    /\ HostIdle
    /\ handle_in = NoHandle
    /\ handle_out = NoHandle
    /\ state_imports = {}
    /\ current_generation = <<0, 0>>
    /\ entry_mapping = <<>>
    /\ iterators = <<>>
    /\ state_trie = Trie_new(<<>>)
    /\ resumes = 0
    /\ issued = {}
    /\ yielded = <<>>
    /\ lastCall = [op |-> "none"]
    /\ inserted = {}
    /\ checkpoint = [tag |-> "None"]
    /\ input = [fn |-> "none"]
    /\ output = [tag |-> "None"]
    /\ ContractsIdle

\* insert of a key that is not in the trie
TrieInsert ==
    /\ Len(state_trie.entries) < MaxInserts
    /\ \E key \in TrieKeys, value \in TrieValues :
         /\ \A p \in inserted : p.key # key
         /\ state_trie' = Trie_insert(state_trie, key, value).trie
         /\ inserted' = inserted \cup {[key |-> key, value |-> value]}
         /\ lastCall' = [op |-> "insert", key |-> key, found |-> FALSE, value |-> value]
    /\ UNCHANGED <<checkpoint, resumes>>
    /\ TrieFrame

TrieGetEntry ==
    /\ \E key \in TrieKeys :
         LET e == Trie_with_entry(state_trie, Trie_get_entry(state_trie, key))
         IN  lastCall' = [op |-> "get_entry", key |-> key, found |-> e.some, value |-> e.value]
    /\ UNCHANGED <<state_trie, inserted, checkpoint, resumes>>
    /\ TrieFrame

TrieDelete ==
    /\ \E key \in TrieKeys :
         LET del == Trie_delete(state_trie, key)
         IN  /\ state_trie' = del.trie
             /\ inserted' = {p \in inserted : p.key # key}
             /\ lastCall' = [op |-> "delete", key |-> key, found |-> del.some, value |-> <<>>]
    /\ UNCHANGED <<checkpoint, resumes>>
    /\ TrieFrame

\* an invoke suspends the contract: the state is checkpointed
TrieInterrupt ==
    /\ checkpoint.tag = "None"
    /\ resumes < MaxResumes
    /\ checkpoint' = [tag |-> "Some", root |-> Trie_freeze(state_trie), inserted |-> inserted]
    /\ lastCall' = [op |-> "interrupt", key |-> <<>>, found |-> FALSE, value |-> <<>>]
    /\ UNCHANGED <<state_trie, inserted, resumes>>
    /\ TrieFrame

\* resume with the response: success keeps the state, failure resets it to
\* the checkpoint
TrieResume ==
    /\ checkpoint.tag = "Some"
    /\ \E success \in BOOLEAN :
         /\ state_trie' = IF success THEN state_trie ELSE Trie_make_mutable(checkpoint.root)
         /\ inserted' = IF success THEN inserted ELSE checkpoint.inserted
         /\ lastCall' = [op |-> "resume", key |-> <<>>, found |-> success, value |-> <<>>,
                         before |-> Trie_contents(state_trie)]
    /\ checkpoint' = [tag |-> "None"]
    /\ resumes' = resumes + 1
    /\ TrieFrame

TrieNext ==
    \/ TrieInsert
    \/ TrieGetEntry
    \/ TrieDelete
    \/ TrieInterrupt
    \/ TrieResume

SpecTrie == TrieInit /\ [][TrieNext]_vars

(***************************************************************************)
(* Properties.                                                             *)
(***************************************************************************)
\* the callbacks that charge energy
IsCharge(o) == o.op \in {"tick_energy", "ChargeEnergy", "ChargeStackSize", "ChargeMemoryAlloc"}

\* what a charge costs: the amount, or 100 per page
Cost(o) == IF o.op = "ChargeMemoryAlloc" THEN o.a * 100 ELSE o.a

\* C1: a charge of cost c (the amount, or pages * 100) called with remaining
\* energy e succeeds and leaves e - c when e >= c, and otherwise fails with
\* "Out of energy." and leaves 0.
C1_ChargeExact ==
    IsCharge(lastOp) =>
        IF lastOp.pre >= Cost(lastOp)
        THEN lastOp.res = "ok" /\ energy = lastOp.pre - Cost(lastOp)
        ELSE lastOp.res = "err" /\ lastOp.msg = "Out of energy." /\ energy = 0

\* C1 witness: a memory charge of at least one page has succeeded.
C1_Witness ==
    /\ lastOp.op = "ChargeMemoryAlloc"
    /\ lastOp.a >= 1
    /\ lastOp.res = "ok"
    /\ energy = lastOp.pre - 100 * lastOp.a

\* C2: no step of an invocation (tick, charging import, other host call,
\* return) increases the remaining energy.
C2_EnergyNonIncreasing == [][energy' <= energy]_vars

\* C2 witness: a tick has lowered the energy and the invocation goes on.
C2_Witness ==
    /\ lastOp.op = "tick_energy"
    /\ lastOp.res = "ok"
    /\ energy < lastOp.pre
    /\ phase = "running"

\* C3: when a charge fails, the caller receives the OutOfEnergy result.
C3_OutOfEnergyResult ==
    (phase = "done" /\ IsCharge(lastOp) /\ lastOp.res = "err") => result.tag = "OutOfEnergy"

\* C4 as stated: once the energy is zero it stays zero, and every charge
\* called with zero energy fails, whatever its amount.
C4_Original ==
    [][/\ energy = 0 => energy' = 0
       /\ (energy = 0 /\ IsCharge(lastOp')) => lastOp'.res = "err"]_vars

\* C4 amended: once the energy is zero it stays zero (so it reaches zero at
\* most once), and a charge called with zero energy fails exactly when its
\* cost is positive; a charge of cost 0 succeeds.
C4_ZeroIsFinal ==
    [][/\ energy = 0 => energy' = 0
       /\ (energy = 0 /\ IsCharge(lastOp')) => (lastOp'.res = "err" <=> Cost(lastOp') > 0)
       /\ (energy = 0 /\ IsCharge(lastOp')) => (lastOp'.res = "ok" <=> Cost(lastOp') = 0)]_vars

\* C4 witness: a charge of a positive amount was called with zero energy and
\* failed.
C4_Witness ==
    /\ IsCharge(lastOp)
    /\ lastOp.pre = 0
    /\ Cost(lastOp) > 0
    /\ lastOp.res = "err"
    /\ energy = 0

\* C5 as stated: with 1 remaining energy every charge of cost >= 1 fails.
C5_Original ==
    (IsCharge(lastOp) /\ lastOp.pre = 1 /\ Cost(lastOp) >= 1) => lastOp.res = "err"

\* C5 amended: with 1 remaining energy every charge of cost >= 2 fails with
\* "Out of energy.", the invocation ends with an error that carries no
\* state, and the host state and the caller's bytes are untouched by the
\* charge; a charge of cost exactly 1 succeeds and leaves 0.
C5_OneEnergy ==
    [][(energy = 1 /\ IsCharge(lastOp')) =>
          IF Cost(lastOp') >= 2
          THEN /\ lastOp'.res = "err"
               /\ lastOp'.msg = "Out of energy."
               /\ energy' = 0
               /\ phase' = "done"
               /\ result' = [tag |-> "Err", msg |-> "Out of energy."]
               /\ state' = state
               /\ current_state' = current_state
          ELSE lastOp'.res = "ok" /\ energy' = 1 - Cost(lastOp')]_vars

\* C5 witness: a receive invocation that had written its state ran out of
\* energy on a charge of cost >= 2 called with 1 remaining energy.
C5_Witness ==
    /\ kind = "receive"
    /\ IsCharge(lastOp)
    /\ lastOp.pre = 1
    /\ Cost(lastOp) >= 2
    /\ lastOp.res = "err"
    /\ state # current_state
    /\ result.tag = "Err"

\* C6: a host call with a pointer range outside the memory returns an
\* error; no host call panics.
C6_MemoryChecked ==
    /\ lastOp.oob => lastOp.res = "err"
    /\ lastOp.res # "panic"

\* the host calls of call_common, InitHost::call and call_receive_only
IsHostCall(o) == o.op \notin {"none", "return", "trap"} /\ ~IsCharge(o)

\* C7: a host call that returns an error leaves logs, state and action list
\* as they were, and the invocation ends with that error, not with Success.
C7_ErrorFrame ==
    [][(IsHostCall(lastOp') /\ lastOp'.res = "err") =>
          /\ logs' = logs
          /\ state' = state
          /\ outcomes' = outcomes
          /\ phase' = "done"
          /\ result' = [tag |-> "Err", msg |-> lastOp'.msg]]_vars

\* C7 witness: a write past the end of a non-empty state has failed after
\* the state had been changed.
C7_Witness ==
    /\ lastOp.op = "WriteState"
    /\ lastOp.res = "err"
    /\ lastOp.msg = "Cannot write past the offset."
    /\ state # <<>>
    /\ state # current_state
    /\ phase = "done"

\* C8: a receive entrypoint that returns a negative i32 yields Reject with
\* the remaining energy and nothing else, and the caller's current-state
\* bytes never change.
C8_Reject ==
    [][/\ current_state' = current_state
       /\ (kind = "receive" /\ lastOp'.op = "return" /\ lastOp'.a < 0)
            => result' = [tag |-> "Reject", remaining_energy |-> energy]]_vars

\* C8 witness: a receive invocation that wrote its state and charged energy
\* was rejected.
C8_Witness ==
    /\ kind = "receive"
    /\ lastOp.op = "return"
    /\ lastOp.a < 0
    /\ result.tag = "Reject"
    /\ state # current_state

\* C9: a receive entrypoint that returns n with 0 <= n < |actions| yields
\* Success with the first n + 1 actions, the host's state, logs and
\* remaining energy; with n >= |actions| it yields an error.
C9_SuccessRoot ==
    (kind = "receive" /\ lastOp.op = "return" /\ lastOp.a >= 0) =>
        IF lastOp.a < Len(outcomes)
        THEN result = [tag |-> "Success", logs |-> logs, state |-> state,
                       actions |-> [i \in 1..(lastOp.a + 1) |-> outcomes[i]],
                       remaining_energy |-> energy]
        ELSE result.tag = "Err"

\* C9 witness: Success with a root below the last created action, so the
\* list was truncated.
C9_Witness ==
    /\ kind = "receive"
    /\ result.tag = "Success"
    /\ lastOp.a >= 1
    /\ Len(result.actions) = lastOp.a + 1
    /\ Len(result.actions) < Len(outcomes)

\* C10: combine_and / combine_or with l or r not below the number of
\* actions fail and leave the list unchanged; otherwise they append exactly
\* one And / Or node holding (l, r).
C10_Combine ==
    [][(kind = "receive" /\ lastOp'.op \in {"CombineAnd", "CombineOr"}) =>
          LET l    == lastOp'.a
              r    == lastOp'.b
              next == Len(outcomes)
              node == [tag |-> IF lastOp'.op = "CombineAnd" THEN "And" ELSE "Or",
                       l |-> l, r |-> r]
          IN  IF l < next /\ r < next
              THEN lastOp'.res = "ok" /\ outcomes' = outcomes \o <<node>>
              ELSE lastOp'.res = "err" /\ outcomes' = outcomes]_vars

\* C10 witness: a combine_or of two different earlier actions has succeeded.
C10_Witness ==
    /\ lastOp.op = "CombineOr"
    /\ lastOp.res = "ok"
    /\ lastOp.a # lastOp.b
    /\ outcomes[Len(outcomes)] = [tag |-> "Or", l |-> lastOp.a, r |-> lastOp.b]

\* every And / Or node of the list, stored at (0-based) index i, refers to
\* indices below i
Acyclic(actions) ==
    \A i \in 1..Len(actions) :
        actions[i].tag \in {"And", "Or"} => actions[i].l < i - 1 /\ actions[i].r < i - 1

\* C11: whatever action calls were made, successful or failing, every And /
\* Or node at index i of the action list has l < i and r < i, and so has
\* every node of the truncated list returned on Success.
C11_ActionsAcyclic ==
    /\ Acyclic(outcomes)
    /\ (kind = "receive" /\ result.tag = "Success") => Acyclic(result.actions)

\* C11 witness: Success returned a truncated list that holds a combining
\* node.
C11_Witness ==
    /\ kind = "receive"
    /\ result.tag = "Success"
    /\ Len(result.actions) < Len(outcomes)
    /\ \E i \in 1..Len(result.actions) : result.actions[i].tag \in {"And", "Or"}

\* the calls that create an action
IsActionCall(o) == o.op \in {"Accept", "SimpleTransfer", "Send", "CombineAnd", "CombineOr"}

\* C12: a successful accept, simple_transfer, send, combine_and or
\* combine_or appends exactly one action, leaves the earlier actions as they
\* were and returns the index of the new action, the number of actions that
\* existed before the call.
C12_AppendOne ==
    [][(kind = "receive" /\ IsActionCall(lastOp') /\ lastOp'.res = "ok") =>
          /\ Len(outcomes') = Len(outcomes) + 1
          /\ SubSeq(outcomes', 1, Len(outcomes)) = outcomes
          /\ lastOp'.ret = Len(outcomes)
          /\ outcomes'[lastOp'.ret + 1].tag =
                (CASE lastOp'.op = "Accept" -> "Accept"
                   [] lastOp'.op = "SimpleTransfer" -> "SimpleTransfer"
                   [] lastOp'.op = "Send" -> "Send"
                   [] lastOp'.op = "CombineAnd" -> "And"
                   [] lastOp'.op = "CombineOr" -> "Or")]_vars

\* C12 witness: a simple_transfer created the second or a later action and
\* returned its index.
C12_Witness ==
    /\ lastOp.op = "SimpleTransfer"
    /\ lastOp.res = "ok"
    /\ lastOp.ret >= 1
    /\ Len(outcomes) = lastOp.ret + 1
    /\ outcomes[lastOp.ret + 1].tag = "SimpleTransfer"

\* C13: write_state(offset, bytes) with offset <= the length writes the first
\* min(|bytes|, MAX_CONTRACT_STATE - offset) bytes at offset, extends the
\* state to min(offset + |bytes|, MAX_CONTRACT_STATE) when that is longer,
\* returns the number of bytes written and changes no other byte; with
\* offset > the length it fails and leaves the state unchanged.
C13_WriteState ==
    [][(lastOp'.op = "WriteState" /\ lastOp'.msg # "Illegal memory access.") =>
          LET offset  == lastOp'.a
              bytes   == lastOp'.b
              written == Min(Len(bytes), MAX_CONTRACT_STATE - offset)
              end     == Min(offset + Len(bytes), MAX_CONTRACT_STATE)
          IN  IF offset <= Len(state)
              THEN /\ lastOp'.res = "ok"
                   /\ lastOp'.ret = written
                   /\ Len(state') = (IF end > Len(state) THEN end ELSE Len(state))
                   /\ \A i \in 1..Len(state') :
                         state'[i] = (IF i > offset /\ i <= offset + written
                                      THEN bytes[i - offset]
                                      ELSE state[i])
              ELSE /\ lastOp'.res = "err"
                   /\ state' = state]_vars

\* C13 witness: a write that reached the maximum state size was cut short:
\* it wrote at least one byte but not all of them.
C13_Witness ==
    /\ lastOp.op = "WriteState"
    /\ lastOp.res = "ok"
    /\ lastOp.ret >= 1
    /\ lastOp.ret < Len(lastOp.b)
    /\ Len(state) = MAX_CONTRACT_STATE
    /\ state[MAX_CONTRACT_STATE] = lastOp.b[1]

\* C14: resize_state(n) with n > MAX_CONTRACT_STATE returns 0 and leaves the
\* state unchanged; with n <= MAX_CONTRACT_STATE it returns 1, sets the
\* length to n, keeps the first min(old length, n) bytes and fills the new
\* bytes with zero.
C14_ResizeState ==
    [][lastOp'.op = "ResizeState" =>
          LET n == lastOp'.a
          IN  IF n > MAX_CONTRACT_STATE
              THEN lastOp'.ret = 0 /\ state' = state
              ELSE /\ lastOp'.ret = 1
                   /\ Len(state') = n
                   /\ \A i \in 1..n : state'[i] = (IF i <= Len(state) THEN state[i] ELSE 0)]_vars

\* C14 witness: a non-empty state was grown to the maximum size; its first
\* byte was kept and the new last byte is zero.
C14_Witness ==
    /\ lastOp.op = "ResizeState"
    /\ lastOp.a = MAX_CONTRACT_STATE
    /\ lastOp.ret = 1
    /\ Len(state) = MAX_CONTRACT_STATE
    /\ state[1] # 0
    /\ state[MAX_CONTRACT_STATE] = 0

\* the number a big-endian u32 at position at (from 1) of bs stands for
ReadU32(bs, at) == ((bs[at] * 256 + bs[at + 1]) * 256 + bs[at + 2]) * 256 + bs[at + 3]

RECURSIVE ReadEvents(_, _, _)
\* count length-prefixed byte vectors read from position at of bs, and the
\* position after them
ReadEvents(bs, at, count) ==
    IF count = 0
    THEN [events |-> <<>>, at |-> at]
    ELSE LET len  == ReadU32(bs, at)
             rest == ReadEvents(bs, at + 4 + len, count - 1)
         IN  [events |-> <<SubSeq(bs, at + 4, at + 3 + len)>> \o rest.events, at |-> rest.at]

\* C15: the logs only grow, by a successful log_event appending the logged
\* bytes at the end (nothing is modified, reordered or removed), and
\* to_bytes is a big-endian u32 count followed by each event in that order
\* as a big-endian u32 length and its bytes.
C15_Logs ==
    [][/\ IF lastOp'.op = "LogEvent" /\ lastOp'.res = "ok"
          THEN logs' = logs \o <<lastOp'.b>>
          ELSE logs' = logs
       /\ LET bs   == Logs_to_bytes(logs')
              read == ReadEvents(bs, 5, ReadU32(bs, 1))
          IN  /\ ReadU32(bs, 1) = Len(logs')
              /\ read.events = logs'
              /\ read.at = Len(bs) + 1]_vars

\* C15 witness: two different events were logged, the shorter one last, and
\* the serialization lists them in that order.
C15_Witness ==
    /\ lastOp.op = "LogEvent"
    /\ Len(logs) = 2
    /\ Len(logs[1]) > Len(logs[2])
    /\ Len(logs[2]) >= 1
    /\ logs[2] = lastOp.b
    /\ Logs_to_bytes(logs) =
         <<0, 0, 0, 2>> \o <<0, 0, 0, Len(logs[1])>> \o logs[1]
                       \o <<0, 0, 0, Len(logs[2])>> \o logs[2]

\* generations below 2^31 and indices below 2^32
IsSmallGeneration(g) == g[2] < 32768

IsSmallIndex(i) == i[3] = 0 /\ i[4] = 0

\* C18: a handle built from (g, i) with g < 2^31 and i < 2^32 splits back
\* into exactly (g, i), whether or not its top bit was set or cleared in
\* between; the option form of Some has the top bit set and so differs from
\* the None encoding, which is 0.
C18_HandleRoundTrip ==
    handle_out.tag = "Handle" =>
        /\ (handle_in.tag = "Some" /\ IsSmallGeneration(handle_in.gen)
               /\ IsSmallIndex(handle_in.idx) /\ handle_out.split.tag = "Some")
             => handle_out.split.value = [generation |-> handle_in.gen, idx |-> handle_in.idx]
        /\ (handle_out.type \in {"InstanceStateEntryOption", "InstanceStateIteratorOption"})
             => IF handle_in.tag = "Some"
                THEN /\ handle_out.index[4] >= 32768
                     /\ handle_out.index # <<0, 0, 0, 0>>
                ELSE handle_out.index = <<0, 0, 0, 0>>

\* C18 witness: an option handle of generation 2^31 - 1 and index 2^32 - 1
\* was handed back as an entry handle with its top bit set and split.
C18_Witness ==
    /\ handle_in = [tag |-> "Some", gen |-> <<65535, 32767>>, idx |-> <<65535, 65535, 0, 0>>]
    /\ handle_out.tag = "Handle"
    /\ handle_out.type = "InstanceStateEntry"
    /\ handle_out.index = <<65535, 65535, 65535, 65535>>
    /\ handle_out.split.tag = "Some"
    /\ handle_out.split.value.generation = <<65535, 32767>>

(***************************************************************************)
(* The instance state facade (SpecState)                                   *)
(***************************************************************************)
HandleOps ==
    {"delete_entry", "iterator_next", "entry_read", "entry_write", "entry_size",
     "entry_resize", "entry_key_read", "entry_key_size"}

EntryOps == HandleOps \ {"iterator_next"}

\* bits 32..62 and bits 0..31 of a handle
EncodedGeneration(h) == <<h[3], h[4] % 32768>>

EncodedIndex(h) == <<h[1], h[2]>>

\* C16: an operation given a handle whose encoded generation is not the
\* facade's current generation returns an error and leaves the trie, the
\* entry mapping and the iterators as they were; so does every operation
\* given a handle that was issued under another generation, such as one
\* obtained before an interrupt and used after the resume.
C16_GenerationMismatch ==
    [][lastCall'.op \in HandleOps =>
         /\ EncodedGeneration(lastCall'.args.handle) # current_generation
              => /\ lastCall'.res = "err"
                 /\ UNCHANGED <<state_trie, entry_mapping, iterators>>
         /\ \A i \in issued :
              (i.handle = lastCall'.args.handle /\ i.gen # current_generation)
              => /\ lastCall'.res = "err"
                 /\ UNCHANGED <<state_trie, entry_mapping, iterators>>]_vars

\* C16 witness: after a resume, entry_read was given an entry handle issued
\* before the interrupt and returned the generation error.
C16_Witness ==
    /\ resumes = 1
    /\ lastCall.op = "entry_read"
    /\ lastCall.res = "err"
    /\ lastCall.msg = "Incorrect entry id generation."
    /\ \E i \in issued : /\ i.kind = "entry"
                         /\ i.handle = lastCall.args.handle
                         /\ i.gen # current_generation

\* the slot a handle of the current generation names is cleared, or its
\* index is beyond the mapping
NoSlot(h, mapping) ==
    \/ EncodedIndex(h)[2] > 0
    \/ EncodedIndex(h)[1] >= Len(mapping)
    \/ mapping[EncodedIndex(h)[1] + 1] = NoneEntry

\* C17: an entry operation given a handle whose slot delete_entry has
\* cleared, or whose index is beyond the mapping, fails with an error
\* instead of returning a result.
C17_ClearedSlotFails ==
    [][(lastCall'.op \in EntryOps /\ NoSlot(lastCall'.args.handle, entry_mapping))
          => lastCall'.res = "err"]_vars

\* the keys an existing iterator locks
UnderIterator(key) == \E i \in 1..Len(iterators) : IsPrefix(iterators[i].prefix, key)

\* the key a call changes the trie at
TargetKeys(call, mapping) ==
    IF call.op \in {"create_entry", "delete_prefix"} THEN {call.args.key}
    ELSE IF call.op = "delete_entry" /\ ~NoSlot(call.args.handle, mapping)
    THEN {mapping[EncodedIndex(call.args.handle)[1] + 1].key}
    ELSE {}

\* C19: while an iterator over a prefix exists, create_entry, delete_entry
\* and delete_prefix on a key with that prefix fail and leave the contents
\* of the trie as they were.
C19_StructuralLock ==
    [][(\E key \in TargetKeys(lastCall', entry_mapping) : UnderIterator(key))
          => /\ lastCall'.res = "err"
             /\ Trie_contents(state_trie') = Trie_contents(state_trie)]_vars

\* C20: the calls of iterator_next on an iterator yield the keys under its
\* prefix once each in ascending order, and report None exactly when none
\* is left; a yield appends one slot to the entry mapping that holds the
\* key and its entry, and returns the handle of that slot.
C20_OrderedIteration ==
    [][/\ Len(yielded') = Len(iterators')
       /\ \A i \in 1..Len(yielded') :
            LET ks == yielded'[i].keys
                S  == {n.key : n \in {m \in state_trie'.root :
                                         IsPrefix(iterators'[i].prefix, m.key)}}
            IN  /\ \A j \in 1..Len(ks) : ks[j] \in S
                /\ \A j \in 1..Len(ks) : \A k \in 1..Len(ks) :
                      j < k => LexLess(ks[j], ks[k])
                /\ \A key \in S : (\A j \in 1..Len(ks) : ks[j] # key)
                                     => \A j \in 1..Len(ks) : LexLess(ks[j], key)
                /\ yielded'[i].done => {ks[j] : j \in 1..Len(ks)} = S
       /\ (lastCall'.op = "iterator_next" /\ lastCall'.res = "ok")
            => IF IsSomeHandle(lastCall'.ret)
               THEN /\ Len(entry_mapping') = Len(entry_mapping) + 1
                    /\ SubSeq(entry_mapping', 1, Len(entry_mapping)) = entry_mapping
                    /\ LET slot == entry_mapping'[Len(entry_mapping')]
                       IN  /\ slot.tag = "Some"
                           /\ slot.id = Trie_get_entry(state_trie, slot.key)
                           /\ slot.id # NoEntryId
                    /\ EncodedIndex(lastCall'.ret) = U32(Len(entry_mapping))
                    /\ EncodedGeneration(lastCall'.ret) = current_generation
                    /\ lastCall'.ret[4] >= 32768
               ELSE /\ entry_mapping' = entry_mapping
                    /\ \E i \in 1..Len(yielded') :
                          /\ yielded'[i].done
                          /\ EncodedIndex(lastCall'.args.handle) = U32(i - 1)]_vars

\* C20 witness: the iterator over prefix <<1>> yielded <<1>>, then <<1, 1>>,
\* then reported the end.
C20_Witness ==
    /\ Len(iterators) = 1
    /\ iterators[1].prefix = <<1>>
    /\ yielded[1].keys = <<(<<1>>), (<<1, 1>>)>>
    /\ yielded[1].done
    /\ lastCall.op = "iterator_next"
    /\ lastCall.ret = <<0, 0, 0, 0>>
    /\ Len(entry_mapping) = 2

(***************************************************************************)
(* The trie (SpecTrie)                                                     *)
(***************************************************************************)
\* C21: after inserts of distinct keys, a lookup of each inserted key finds
\* its entry with the inserted value, a lookup of any other key finds
\* nothing, the trie has as many entries as keys were inserted, and it is
\* empty once every inserted key has been deleted again.
C21_TrieRoundTrip ==
    /\ \A p \in inserted :
         /\ Trie_get_entry(state_trie, p.key) # NoEntryId
         /\ Trie_with_entry(state_trie, Trie_get_entry(state_trie, p.key))
              = [some |-> TRUE, value |-> p.value]
    /\ \A key \in TrieKeys :
         (\A p \in inserted : p.key # key) => Trie_get_entry(state_trie, key) = NoEntryId
    /\ Trie_len(state_trie) = Cardinality(inserted)
    /\ inserted = {} => Trie_is_empty(state_trie)
    /\ lastCall.op = "get_entry"
         => lastCall.found = (\E p \in inserted : p.key = lastCall.key /\ p.value = lastCall.value)

\* C21 witness: MaxInserts keys were inserted and the last of them has just
\* been deleted.
C21_Witness ==
    /\ Len(state_trie.entries) = MaxInserts
    /\ lastCall.op = "delete"
    /\ lastCall.found
    /\ inserted = {}
    /\ resumes = 0
    /\ checkpoint.tag = "None"

\* C22: after a resume with a failed response the state is, as a key-value
\* map, the snapshot taken at the interrupt; after a successful response it
\* is what it was just before the resume.
C22_Rollback ==
    [][lastCall'.op = "resume"
         => IF lastCall'.found
            THEN Trie_contents(state_trie') = Trie_contents(state_trie)
            ELSE /\ checkpoint.tag = "Some"
                 /\ Trie_contents(state_trie') = checkpoint.root
                 /\ \A p \in checkpoint.inserted :
                      Trie_with_entry(state_trie', Trie_get_entry(state_trie', p.key))
                        = [some |-> TRUE, value |-> p.value]]_vars

\* C22 witness: a failed response came after the state had changed during
\* the interrupt, and the state is a non-empty snapshot again.
C22_Witness ==
    /\ lastCall.op = "resume"
    /\ ~lastCall.found
    /\ lastCall.before # Trie_contents(state_trie)
    /\ Trie_len(state_trie) = 2

(***************************************************************************)
(* Reads and writes of an entry (SpecEntry)                                *)
(***************************************************************************)
\* the value of the entry the facade looked up
EntryValue(trie) == trie.entries[entry_mapping[1].id].value

\* C23: entry_read on a live entry of length len fails when offset > len;
\* otherwise it returns min(len - offset, |dst|), the bytes copied to the
\* front of dst are the value's bytes from offset on, and nothing is copied
\* when offset = len; the value is never changed.
C23_EntryRead ==
    [][lastCall'.op = "entry_read" =>
         LET v      == EntryValue(state_trie)
             offset == lastCall'.args.offset
             dst    == lastCall'.args.len
             count  == IF Len(v) - offset <= dst THEN Len(v) - offset ELSE dst
         IN  /\ state_trie' = state_trie
             /\ IF offset > Len(v)
                THEN lastCall'.res = "err"
                ELSE /\ lastCall'.res = "ok"
                     /\ lastCall'.ret = count
                     /\ Len(lastCall'.data) = count
                     /\ \A i \in 1..count : lastCall'.data[i] = v[offset + i]
                     /\ offset = Len(v) => lastCall'.ret = 0]_vars

\* C23 witness: one byte was read from the middle of a three-byte value.
C23_Witness ==
    /\ lastCall.op = "entry_read"
    /\ lastCall.res = "ok"
    /\ lastCall.args.offset = 1
    /\ lastCall.args.len = 1
    /\ lastCall.data = <<8>>
    /\ EntryValue(state_trie) = <<7, 8, 9>>

\* C24: entry_write on a live entry of length len fails and leaves the
\* value alone when offset > len; otherwise it returns |src|, the value
\* becomes max(len, offset + |src|) long, holds src at offset and its old
\* bytes elsewhere, and an entry_read of |src| bytes at that offset right
\* after the write returns src.
C24_EntryWrite ==
    [][/\ lastCall'.op = "entry_write" =>
            LET v      == EntryValue(state_trie)
                w      == EntryValue(state_trie')
                offset == lastCall'.args.offset
                src    == lastCall'.args.src
                end    == offset + Len(src)
            IN  IF offset > Len(v)
                THEN /\ lastCall'.res = "err"
                     /\ state_trie' = state_trie
                ELSE /\ lastCall'.res = "ok"
                     /\ lastCall'.ret = Len(src)
                     /\ Len(w) = (IF Len(v) >= end THEN Len(v) ELSE end)
                     /\ \A i \in 1..Len(w) :
                          IF offset < i /\ i <= end
                          THEN w[i] = src[i - offset]
                          ELSE w[i] = v[i]
       /\ (/\ lastCall.op = "entry_write"
           /\ lastCall.res = "ok"
           /\ lastCall'.op = "entry_read"
           /\ lastCall'.args.offset = lastCall.args.offset
           /\ lastCall'.args.len = Len(lastCall.args.src))
            => /\ lastCall'.res = "ok"
               /\ lastCall'.data = lastCall.args.src]_vars

\* C24 witness: one byte was written into the middle of a three-byte value.
C24_Witness ==
    /\ lastCall.op = "entry_write"
    /\ lastCall.res = "ok"
    /\ lastCall.args.offset = 1
    /\ lastCall.args.src = <<5>>
    /\ EntryValue(state_trie) = <<7, 5, 9>>

\* the tables of the allowed imports of module concordium, v0 and v1
ImportTable ==
    {[item |-> "accept", ty |-> FunctionType(<<>>, "I32")],
     [item |-> "simple_transfer", ty |-> FunctionType(<<"I32", "I64">>, "I32")],
     [item |-> "send", ty |-> FunctionType(<<"I64", "I64", "I32", "I32", "I64", "I32", "I32">>, "I32")],
     [item |-> "combine_and", ty |-> FunctionType(<<"I32", "I32">>, "I32")],
     [item |-> "combine_or", ty |-> FunctionType(<<"I32", "I32">>, "I32")],
     [item |-> "get_parameter_size", ty |-> FunctionType(<<>>, "I32")],
     [item |-> "get_parameter_section", ty |-> FunctionType(<<"I32", "I32", "I32">>, "I32")],
     [item |-> "log_event", ty |-> FunctionType(<<"I32", "I32">>, "None")],
     [item |-> "load_state", ty |-> FunctionType(<<"I32", "I32", "I32">>, "I32")],
     [item |-> "write_state", ty |-> FunctionType(<<"I32", "I32", "I32">>, "I32")],
     [item |-> "resize_state", ty |-> FunctionType(<<"I32">>, "I32")],
     [item |-> "state_size", ty |-> FunctionType(<<>>, "I32")],
     [item |-> "get_init_origin", ty |-> FunctionType(<<"I32">>, "None")],
     [item |-> "get_receive_invoker", ty |-> FunctionType(<<"I32">>, "None")],
     [item |-> "get_receive_self_address", ty |-> FunctionType(<<"I32">>, "None")],
     [item |-> "get_receive_self_balance", ty |-> FunctionType(<<>>, "I64")],
     [item |-> "get_receive_sender", ty |-> FunctionType(<<"I32">>, "None")],
     [item |-> "get_receive_owner", ty |-> FunctionType(<<"I32">>, "None")],
     [item |-> "get_slot_number", ty |-> FunctionType(<<>>, "I64")],
     [item |-> "get_block_height", ty |-> FunctionType(<<>>, "I64")],
     [item |-> "get_finalized_height", ty |-> FunctionType(<<>>, "I64")],
     [item |-> "get_slot_time", ty |-> FunctionType(<<>>, "I64")]}

v1_ImportTable ==
    {[item |-> "invoke", ty |-> FunctionType(<<"I32", "I32", "I32">>, "I64")],
     [item |-> "write_output", ty |-> FunctionType(<<"I32", "I32", "I32">>, "I32")],
     [item |-> "get_parameter_size", ty |-> FunctionType(<<"I32">>, "I32")],
     [item |-> "get_parameter_section", ty |-> FunctionType(<<"I32", "I32", "I32", "I32">>, "I32")],
     [item |-> "get_policy_section", ty |-> FunctionType(<<"I32", "I32", "I32">>, "I32")],
     [item |-> "log_event", ty |-> FunctionType(<<"I32", "I32">>, "I32")],
     [item |-> "get_init_origin", ty |-> FunctionType(<<"I32">>, "None")],
     [item |-> "get_receive_invoker", ty |-> FunctionType(<<"I32">>, "None")],
     [item |-> "get_receive_self_address", ty |-> FunctionType(<<"I32">>, "None")],
     [item |-> "get_receive_self_balance", ty |-> FunctionType(<<>>, "I64")],
     [item |-> "get_receive_sender", ty |-> FunctionType(<<"I32">>, "None")],
     [item |-> "get_receive_owner", ty |-> FunctionType(<<"I32">>, "None")],
     [item |-> "get_slot_time", ty |-> FunctionType(<<>>, "I64")],
     [item |-> "state_lookup_entry", ty |-> FunctionType(<<"I32", "I32">>, "I64")],
     [item |-> "state_create_entry", ty |-> FunctionType(<<"I32", "I32">>, "I64")],
     [item |-> "state_delete_entry", ty |-> FunctionType(<<"I64">>, "I32")],
     [item |-> "state_delete_prefix", ty |-> FunctionType(<<"I32", "I32">>, "I32")],
     [item |-> "state_iterate_prefix", ty |-> FunctionType(<<"I32", "I32">>, "I32")],
     [item |-> "state_iterator_next", ty |-> FunctionType(<<"I32">>, "I64")],
     [item |-> "state_entry_read", ty |-> FunctionType(<<"I64", "I32", "I32", "I32">>, "I32")],
     [item |-> "state_entry_write", ty |-> FunctionType(<<"I64", "I32", "I32", "I32">>, "I32")],
     [item |-> "state_entry_size", ty |-> FunctionType(<<"I64">>, "I32")],
     [item |-> "state_entry_resize", ty |-> FunctionType(<<"I64", "I32">>, "I32")],
     [item |-> "state_entry_key_read", ty |-> FunctionType(<<"I64", "I32", "I32", "I32">>, "I32")],
     [item |-> "state_entry_key_size", ty |-> FunctionType(<<"I64">>, "I32")]}

\* the types with which the host serves the metering imports
MeteringTable ==
    {[item |-> "account_energy", ty |-> FunctionType(<<"I64">>, "None")],
     [item |-> "account_stack", ty |-> FunctionType(<<"I64">>, "None")],
     [item |-> "account_memory", ty |-> FunctionType(<<"I32">>, "I32")]}

v1_MeteringTable ==
    {[item |-> "account_energy", ty |-> FunctionType(<<"I64">>, "None")],
     [item |-> "track_call", ty |-> FunctionType(<<>>, "None")],
     [item |-> "track_return", ty |-> FunctionType(<<>>, "None")],
     [item |-> "account_memory", ty |-> FunctionType(<<"I32">>, "I32")]}

ImportDone == input.fn \in {"validate_import_function", "v1_validate_import_function"} /\ output.tag = "Some"

ImportEntry == [item |-> input.item_name, ty |-> input.ty]

\* C25 as stated: an import is accepted exactly when it is not a duplicate,
\* its module is concordium or concordium_metering, its item is a host
\* function of that module and its type is the table's
C25_BothModules ==
    ImportDone =>
        (output.value <=>
            /\ ~input.duplicate
            /\ \/ /\ input.mod_name = "concordium"
                  /\ ImportEntry \in (IF input.fn = "validate_import_function"
                                      THEN ImportTable ELSE v1_ImportTable)
               \/ /\ input.mod_name = "concordium_metering"
                  /\ ImportEntry \in (IF input.fn = "validate_import_function"
                                      THEN MeteringTable ELSE v1_MeteringTable))

\* C25: validate_import_function (v0 and v1) accepts an import exactly when
\* it is not a duplicate, its module name is concordium, its item name is in
\* the table of that version and its type equals the table's parameters and
\* result; every other import, every import of concordium_metering
\* included, is rejected
C25_AllowedImports ==
    ImportDone =>
        (output.value <=>
            /\ ~input.duplicate
            /\ input.mod_name = "concordium"
            /\ ImportEntry \in (IF input.fn = "validate_import_function"
                                THEN ImportTable ELSE v1_ImportTable))

\* an import of concordium that the v1 predicate accepts
C25_Witness ==
    /\ ImportDone
    /\ input.fn = "v1_validate_import_function"
    /\ input.mod_name = "concordium"
    /\ input.item_name = "state_entry_read"
    /\ output.value


\* the number of '.' in a name
RECURSIVE DotCount(_)
DotCount(name) ==
    IF name = <<>> THEN 0
    ELSE (IF Head(name) = 46 THEN 1 ELSE 0) + DotCount(Tail(name))

FnDone(fn) == input.fn = fn /\ output.tag = "Some"

Listed == {output.value[i] : i \in 1..Len(output.value)}

\* C26 as stated: every name accepted as a receive entrypoint contains
\* exactly one '.', and every name accepted as an init entrypoint begins
\* with init_ and contains no '.'
C26_ExactlyOneDot ==
    /\ (FnDone("validate_export_function") \/ FnDone("v1_validate_export_function"))
       /\ output.value
       => IF starts_with_init(input.item_name)
          THEN DotCount(input.item_name) = 0
          ELSE DotCount(input.item_name) = 1
    /\ FnDone("is_valid_receive_name") /\ output.value => DotCount(input.bs) = 1
    /\ FnDone("get_receives") => \A name \in Listed : DotCount(name) = 1
    /\ FnDone("get_inits") =>
           \A name \in Listed : starts_with_init(name) /\ DotCount(name) = 0

\* C26: every name accepted as a receive entrypoint (a non-init_ export
\* accepted by the v0 validate_export_function, a name accepted by
\* is_valid_receive_name, a name listed by get_receives) contains at least
\* one '.', and every name accepted as an init entrypoint (an init_ export
\* accepted by the v0 validate_export_function, a name listed by get_inits)
\* begins with init_ and contains no '.'
C26_EntrypointNames ==
    /\ FnDone("validate_export_function") /\ output.value
       => IF starts_with_init(input.item_name)
          THEN DotCount(input.item_name) = 0
          ELSE DotCount(input.item_name) >= 1
    /\ FnDone("is_valid_receive_name") /\ output.value => DotCount(input.bs) >= 1
    /\ FnDone("get_receives") => \A name \in Listed : DotCount(name) >= 1
    /\ FnDone("get_inits") =>
           \A name \in Listed : starts_with_init(name) /\ DotCount(name) = 0

\* get_receives lists a name with two dots next to an export it leaves out
C26_Witness ==
    /\ FnDone("get_receives")
    /\ Len(input.exports) = 2
    /\ Len(output.value) = 1
    /\ DotCount(output.value[1]) = 2

\* C27: validate_export_function (v0 and v1) accepts an export only if its
\* name is at most MAX_EXPORT_NAME_LEN bytes of ASCII alphanumeric or
\* punctuation characters, and every accepted export whose name starts with
\* init_ or contains '.' has type (i64) -> i32
C27_ExportType ==
    (FnDone("validate_export_function") \/ FnDone("v1_validate_export_function"))
    /\ output.value
    => /\ Len(input.item_name) <= MAX_EXPORT_NAME_LEN
       /\ \A i \in 1..Len(input.item_name) : IsAlnumOrPunct(input.item_name[i])
       /\ (starts_with_init(input.item_name) \/ DotCount(input.item_name) >= 1)
          => input.ty = FunctionType(<<"I64">>, "I32")


\* C28: for the tag byte of an import function, output followed by parse
\* returns the same function for every variant; the tags are distinct and
\* cover exactly 0..24 in v0 and 0..28 in v1; parsing any other byte fails
C28_TagRoundTrip ==
    /\ FnDone("ImportFunc_output") =>
           /\ output.value.parsed = [ok |-> TRUE, value |-> input.f]
           /\ output.value.tag \in 0..24
           /\ \A g \in ImportFuncs :
                  ImportFunc_output(g) = output.value.tag => g = input.f
    /\ FnDone("v1_ImportFunc_output") =>
           /\ output.value.parsed = [ok |-> TRUE, value |-> input.f]
           /\ output.value.tag \in 0..28
           /\ \A g \in v1_ImportFuncs :
                  v1_ImportFunc_output(g) = output.value.tag => g = input.f
    /\ FnDone("ImportFunc_parse") =>
           /\ output.value.ok <=> input.tag \in 0..24
           /\ output.value.ok =>
                  output.value.value \in ImportFuncs
                  /\ ImportFunc_output(output.value.value) = input.tag
    /\ FnDone("v1_ImportFunc_parse") =>
           /\ output.value.ok <=> input.tag \in 0..28
           /\ output.value.ok =>
                  output.value.value \in v1_ImportFuncs
                  /\ v1_ImportFunc_output(output.value.value) = input.tag

\* the last v0 variant written and read back
C28_Witness ==
    /\ FnDone("ImportFunc_output")
    /\ input.f = "GetReceiveOwner"
    /\ output.value.tag = 24

\* bytes is the big-endian form of the u64 x (16-bit limbs, least
\* significant first), of the i32 n
IsBE64(bytes, x) ==
    /\ Len(bytes) = 8
    /\ \A i \in 1..8 : bytes[i] \in 0..255
    /\ \A k \in 1..4 : x[k] = bytes[9 - 2 * k] * 256 + bytes[10 - 2 * k]

IsBE32(bytes, n) ==
    /\ Len(bytes) = 4
    /\ \A i \in 1..4 : bytes[i] \in 0..255
    /\ n = (bytes[1] - (IF bytes[1] >= 128 THEN 256 ELSE 0)) * 16777216
           + bytes[2] * 65536 + bytes[3] * 256 + bytes[4]

\* C29: ReceiveResult::extract writes OutOfEnergy as the byte 0; Trap as 1
\* and the remaining energy (u64 big-endian); Reject as 2, the reason (i32
\* big-endian) and the remaining energy; Success as 3, the logs and the
\* remaining energy; Interrupt as 4, the remaining energy, the logs and the
\* interrupt payload.  The configuration is returned only for Interrupt, a
\* return value only for Success and Reject, and the flag is true only for
\* Success and Interrupt
C29_Extract ==
    FnDone("ReceiveResult_extract") =>
        LET self == input.self
            out == output.value[1]
            n == Len(out)
            nl == IF self.tag \in {"Success", "Interrupt"}
                  THEN Len(Logs_to_bytes(self.logs)) ELSE 0
        IN  /\ self.tag = "OutOfEnergy" => out = <<0>>
            /\ self.tag = "Trap" =>
                   /\ n = 9 /\ out[1] = 1
                   /\ IsBE64(SubSeq(out, 2, 9), self.remaining_energy)
            /\ self.tag = "Reject" =>
                   /\ n = 13 /\ out[1] = 2
                   /\ IsBE32(SubSeq(out, 2, 5), self.reason)
                   /\ IsBE64(SubSeq(out, 6, 13), self.remaining_energy)
            /\ self.tag = "Success" =>
                   /\ n = 1 + nl + 8 /\ out[1] = 3
                   /\ SubSeq(out, 2, 1 + nl) = Logs_to_bytes(self.logs)
                   /\ IsBE64(SubSeq(out, 2 + nl, n), self.remaining_energy)
            /\ self.tag = "Interrupt" =>
                   /\ n = 9 + nl + Len(self.interrupt.payload) /\ out[1] = 4
                   /\ IsBE64(SubSeq(out, 2, 9), self.remaining_energy)
                   /\ SubSeq(out, 10, 9 + nl) = Logs_to_bytes(self.logs)
                   /\ SubSeq(out, 10 + nl, n) = self.interrupt.payload
            /\ output.value[2] <=> self.tag \in {"Success", "Interrupt"}
            /\ output.value[3] = IF self.tag = "Interrupt" THEN Some(self.config) ELSE None
            /\ output.value[4] = IF self.tag \in {"Success", "Reject"}
                                 THEN Some(self.return_value) ELSE None

\* a rejection with a negative reason and an energy that fills all eight bytes
C29_Witness ==
    /\ FnDone("ReceiveResult_extract")
    /\ input.self.tag = "Reject"
    /\ input.self.reason = -2
    /\ input.self.remaining_energy = <<1800, 1286, 772, 258>>
    /\ output.value[1] = <<2, 255, 255, 255, 254, 1, 2, 3, 4, 5, 6, 7, 8>>


\* the u32 new is the u32 old plus b, as numbers
IsIncreasedBy(new, old, b) ==
    /\ new[2] - old[2] \in {0, 1}
    /\ (new[2] - old[2]) * 65536 + (new[1] - old[1]) = b

\* C30: the counter's receive succeeds exactly when amount > 10 and the
\* sender is the owner account; on success it returns Accept, logs (1, step),
\* increases current_count by step and leaves step unchanged; on failure
\* (SmallAmount or OnlyOwner) it produces no log and leaves the state
\* unchanged
C30_CounterReceive ==
    FnDone("contract_receive") =>
        LET r == output.value
        IN  /\ r.res = "Ok" <=>
                   /\ input.amount > 10
                   /\ input.ctx.sender = [tag |-> "Account", account |-> input.ctx.owner]
            /\ r.res = "Ok" =>
                   /\ r.actions = "Accept"
                   /\ r.logger = << <<1, input.state.step>> >>
                   /\ r.state.step = input.state.step
                   /\ IsIncreasedBy(r.state.current_count, input.state.current_count,
                                    input.state.step)
            /\ r.res # "Ok" =>
                   /\ r.res = "Err"
                   /\ r.err \in {"SmallAmount", "OnlyOwner"}
                   /\ r.logger = <<>>
                   /\ r.state = input.state


\* the indices of the actions that action root refers to through And and
\* Or, root included
RECURSIVE ReachableFrom(_, _)
ReachableFrom(actions, root) ==
    LET a == actions[root + 1]
    IN  IF a.tag \in {"And", "Or"}
        THEN {root} \cup ReachableFrom(actions, a.l) \cup ReachableFrom(actions, a.r)
        ELSE {root}

\* C31: on a successful receive with root n, every action in the returned
\* list is reachable from action n through And/Or references
C31_OnlyReachable ==
    (phase = "done" /\ kind = "receive" /\ result.tag = "Success" /\ lastOp.op = "return")
    => LET n == lastOp.a
       IN  \A i \in 0..(Len(result.actions) - 1) : i \in ReachableFrom(result.actions, n)


StateOps == {"WriteState", "ResizeState", "LoadState"}

\* C32: starting from a contract state no longer than MAX_CONTRACT_STATE,
\* after any sequence of write_state, resize_state and load_state calls the
\* state is no longer than MAX_CONTRACT_STATE, and none of these calls
\* indexes the state out of range (none panics)
C32_StateBounded ==
    /\ Len(state) <= MAX_CONTRACT_STATE
    /\ lastOp.op \in StateOps => lastOp.res # "panic" /\ result.tag # "Panic"

\* a write that starts inside a full state and would run past the maximum
C32_Witness ==
    /\ lastOp.op = "WriteState"
    /\ lastOp.res = "ok"
    /\ lastOp.a = MAX_CONTRACT_STATE - 1
    /\ lastOp.a + Len(lastOp.b) > MAX_CONTRACT_STATE
    /\ Len(state) = MAX_CONTRACT_STATE


\* the call appended a slot to the entry mapping
Allocates(call) ==
    \/ call.op = "create_entry"
    \/ call.op \in {"lookup_entry", "iterator_next"} /\ call.res = "ok" /\ IsSomeHandle(call.ret)

\* C33: entry indices are allocated monotonically: each lookup_entry hit,
\* create_entry and yielding iterator_next uses index = current mapping
\* length; the mapping never shrinks or renumbers; delete_entry clears only
\* the addressed slot, so every other slot keeps the key and entry it was
\* issued for
C33_MonotoneIndices ==
    [][lastCall'.op # "resume" =>
         /\ Len(entry_mapping') =
                Len(entry_mapping) + (IF Allocates(lastCall') THEN 1 ELSE 0)
         /\ Allocates(lastCall') =>
                /\ EncodedIndex(lastCall'.ret) = <<Len(entry_mapping), 0>>
                /\ EncodedGeneration(lastCall'.ret) = current_generation
                /\ entry_mapping'[Len(entry_mapping) + 1].tag = "Some"
                /\ lastCall'.op # "iterator_next" =>
                       entry_mapping'[Len(entry_mapping) + 1].key = lastCall'.args.key
         /\ \A i \in 1..Len(entry_mapping) :
                \/ entry_mapping'[i] = entry_mapping[i]
                \/ /\ lastCall'.op = "delete_entry"
                   /\ lastCall'.res = "ok"
                   /\ EncodedIndex(lastCall'.args.handle) = <<i - 1, 0>>
                   /\ entry_mapping'[i] = NoneEntry]_vars

\* delete_entry has cleared the first of two slots and the second still
\* holds its key
C33_Witness ==
    /\ lastCall.op = "delete_entry"
    /\ lastCall.res = "ok"
    /\ lastCall.ret = 1
    /\ Len(entry_mapping) = 2
    /\ entry_mapping[1] = NoneEntry
    /\ entry_mapping[2].tag = "Some"


Live == {t \in Tasks : mutable_state.tasks[t].facade # NoFacade}

\* C34: at most one live facade holds the mutable state: a live facade
\* holds the mutex from InstanceState::new until it is dropped, no second
\* facade is obtained meanwhile, an interrupted execution holds neither
\* facade nor lock, and the facade of a re-entry is obtained by locking the
\* mutex again when it is free
C34_OneHolder ==
    /\ [](/\ Cardinality(Live) <= 1
          /\ \A t \in Live : mutable_state.mutex.holder = t
          /\ \A t \in Tasks :
                 mutable_state.tasks[t].pc = "interrupted" =>
                     t \notin Live /\ mutable_state.mutex.holder # t)
    /\ [][\A t \in Tasks :
              (mutable_state.tasks[t].facade = NoFacade
               /\ mutable_state'.tasks[t].facade # NoFacade)
              => /\ mutable_state.mutex.holder = NoHolder
                 /\ mutable_state'.mutex.holder = t
                 /\ Live = {}]_vars

\* task 2 holds the state after task 1 was interrupted, which keeps task 1
\* from re-entering
C34_Witness ==
    /\ mutable_state.tasks[1].pc = "interrupted"
    /\ mutable_state.tasks[2].pc = "running"
    /\ mutable_state.mutex.holder = 2
    /\ Live = {2}


Deployed == "mode" \in DOMAIN escrow.state

\* C35: once the mode is Done every received message is rejected with
\* Completed (a parameter that does not parse as a Message is rejected with
\* ParseParams) and the state never changes again; any message that is
\* rejected leaves the mode and the init parameters unchanged
C35_DoneRejects ==
    [][Deployed =>
         /\ escrow.state.mode = "Done" =>
                /\ escrow'.last.res = "Err"
                /\ escrow'.last.err =
                       IF Message_deserial(escrow'.last.parameter).ok
                       THEN "Completed" ELSE "ParseParams"
                /\ escrow'.state = escrow.state
         /\ escrow'.last.res = "Err" => escrow'.state = escrow.state]_vars

\* a message received in mode Done and rejected with Completed
C35_Witness ==
    /\ Deployed
    /\ escrow.last.op = "receive"
    /\ escrow.last.before.mode = "Done"
    /\ escrow.last.err = "Completed"
    /\ escrow.state.mode = "Done"

Arbitrations ==
    {"Arbitrate(ReturnDepositToBuyer)", "Arbitrate(ReleaseFundsToSeller)",
     "Arbitrate(ReawaitDelivery)"}

\* C36: the mode leaves AwaitingArbitration, and the deposit is paid out of
\* it, only on an Arbitrate message whose sender is the designated arbiter
C36_ArbiterOnly ==
    [][(Deployed /\ escrow.state.mode = "AwaitingArbitration"
        /\ (escrow'.state.mode # "AwaitingArbitration"
            \/ escrow'.last.actions # A_accept))
       => /\ Message_deserial(escrow'.last.parameter).msg \in Arbitrations
          /\ escrow'.last.sender =
                 [tag |-> "Account", account |-> escrow.state.init_params.arbiter]]_vars


\* base + delta for a u32 base and an i64 delta, when it is in 0..2^32-1
SeekTarget(base, delta) ==
    IF delta.mag[3] # 0 \/ delta.mag[4] # 0 THEN None
    ELSE IF delta.neg
    THEN u32_checked_sub(base, <<delta.mag[1], delta.mag[2]>>)
    ELSE u32_checked_add(base, <<delta.mag[1], delta.mag[2]>>)

\* C37: seek follows SeekFrom on a stream of length size(): Start(o) sets
\* the position to o, End(d) to size + d, Current(d) to position + d; it
\* returns the new position, and it fails without moving the position when
\* the target is negative or does not fit in 32 bits
C37_Seek ==
    FnDone("ContractState_seek") =>
        LET self   == input.self
            pos    == input.pos
            r      == output.value
            target == CASE pos.tag = "Start" -> u32_try_from(pos.offset)
                        [] pos.tag = "End" -> SeekTarget(self.size, pos.delta)
                        [] pos.tag = "Current" ->
                               SeekTarget(self.current_position, pos.delta)
        IN  IF target.tag = "Some"
            THEN /\ r.res = "Ok"
                 /\ r.self.current_position = target.value
                 /\ r.ret = <<target.value[1], target.value[2], 0, 0>>
                 /\ r.self.size = self.size
            ELSE r.res = "Err" /\ r.self = self


CompileDone == input.fn \in {"try_from_import", "v1_try_from_import"} /\ output.tag = "Some"

\* the tag of the same (module name, item name) pair under another type section
TagUnder(ctx) ==
    IF input.fn = "try_from_import"
    THEN try_from_import(ctx, [input EXCEPT !.ctx = ctx])
    ELSE v1_try_from_import(ctx, [input EXCEPT !.ctx = ctx])

\* C38: every import that validate_import_function accepts is mapped to a
\* host-function tag by try_from_import, v0 and v1: compilation does not fail
\* on it, and the tag depends only on the (module name, item name) pair
C38_ValidatedCompiles ==
    (CompileDone /\ output.value.valid) =>
        /\ output.value.compiled.res = "Ok"
        /\ output.value.compiled.tag \in
               (IF input.fn = "try_from_import" THEN ImportFuncs ELSE v1_ImportFuncs)
        /\ \A ty \in FunctionTypes :
               /\ TagUnder(<<ty>>).res = "Ok"
               /\ TagUnder(<<ty>>).tag = output.value.compiled.tag

C38_Witness ==
    /\ CompileDone
    /\ output.value.valid
    /\ input.fn = "v1_try_from_import"
    /\ input.item_name = "state_entry_key_size"
    /\ output.value.compiled.res = "Ok"
    /\ output.value.compiled.tag = "StateEntryKeySize"


\* the generation an operation of the facade reads from a handle
SplitGeneration(i) ==
    IF i.kind = "entry"
    THEN InstanceStateEntry_split(i.handle).generation
    ELSE InstanceStateIterator_split(i.handle).generation

\* C39: a handle issued by an InstanceState (lookup_entry, create_entry,
\* iterator, iterator_next) passes the generation check of that same
\* InstanceState, for every 32-bit generation it can be constructed with,
\* those of 2^31 and above included
C39_OwnHandlesPass ==
    /\ \A i \in issued : i.gen = current_generation => SplitGeneration(i) = current_generation
    /\ (/\ lastCall.op \in HandleOps
        /\ \E i \in issued : i.handle = lastCall.args.handle /\ i.gen = current_generation)
           => lastCall.msg \notin {"Incorrect entry id generation.",
                                   "Incorrect iterator generation."}


\* the slot of the current facade that a handle names, NoneEntry when the
\* handle is of another generation or names no slot
SlotOf(h) ==
    IF EncodedGeneration(h) # current_generation \/ NoSlot(h, entry_mapping)
    THEN NoneEntry
    ELSE entry_mapping[EncodedIndex(h)[1] + 1]

\* the handle names a slot whose entry is no longer in the trie
Orphaned(h) == SlotOf(h).tag = "Some" /\ ~Trie_with_entry(state_trie, SlotOf(h).id).some

\* C40: entry_key_size and entry_key_read answer from the key recorded in
\* the handle's own mapping slot: after the trie entry was removed through
\* another handle to the same key or through delete_prefix they still
\* succeed and return that key (entry_key_read for an offset within it),
\* while entry_read, entry_size, entry_write and entry_resize on the handle
\* fail because the entry does not exist; nothing is changed by these calls
C40_KeyOutlivesEntry ==
    [][(lastCall'.op \in EntryOps \ {"delete_entry"} /\ Orphaned(lastCall'.args.handle)) =>
          LET a   == lastCall'.args
              key == SlotOf(a.handle).key
          IN  /\ lastCall'.op = "entry_key_size" =>
                    lastCall'.res = "ok" /\ lastCall'.ret = Len(key)
              /\ (lastCall'.op = "entry_key_read" /\ a.offset <= Len(key)) =>
                    /\ lastCall'.res = "ok"
                    /\ lastCall'.ret = Min(Len(key) - a.offset, a.len)
                    /\ lastCall'.data = Slice(key, a.offset, a.offset + lastCall'.ret)
              /\ lastCall'.op \in {"entry_read", "entry_size", "entry_write", "entry_resize"} =>
                    lastCall'.res = "err" /\ lastCall'.msg = "Entry does not exist."
              /\ entry_mapping' = entry_mapping
              /\ state_trie' = state_trie]_vars

\* C40 witness: key [1] was looked up twice and deleted through the first
\* handle; entry_key_read on the second handle gave the whole key
C40_Witness ==
    /\ entry_mapping = <<NoneEntry, SomeEntry(1, <<1>>)>>
    /\ lastCall.op = "entry_key_read"
    /\ Orphaned(lastCall.args.handle)
    /\ EncodedIndex(lastCall.args.handle) = <<1, 0>>
    /\ lastCall.res = "ok"
    /\ lastCall.data = <<1>>

\* the same after delete_prefix: the size of the key is still answered
C40_WitnessPrefix ==
    /\ "delete_prefix" \in state_imports
    /\ lastCall.op = "entry_key_size"
    /\ Orphaned(lastCall.args.handle)
    /\ lastCall.res = "ok"
    /\ lastCall.ret = 2

====
